---- MODULE Spec2Model ----
(***************************************************************************)
(* A model of esroyo/web-cache-api-persistence: the Cache matching engine  *)
(* (src/src/cache.ts) with its operation queue, on top of the memory       *)
(* backend (src/src/cache-persistence-memory.ts) and the Redis backend     *)
(* (src/src/cache-persistence-redis.ts), both built on CachePersistenceBase *)
(* (src/unnamed/part_002).                                                 *)
(*                                                                         *)
(* Time is counted in seconds, the unit of max-age and Age: the source's   *)
(* millisecond constants are divided by 1000 (2_592_000_000 ms does not    *)
(* fit TLC's 32-bit integers).  The URL digest is taken to be injective,   *)
(* so the digest of a URL is the URL path itself.  Record ids (monotonic   *)
(* ULIDs) are the integers 1, 2, 3... in creation order.                   *)
(***************************************************************************)
EXTENDS Integers, Sequences, FiniteSets, TLC

\* ------------------------------------------------------------- bounds
MaxTime == 2
MaxCalls == 3
MaxFailures == 1
\* CacheStorage.delete calls per behaviour
MaxStorageDeletes == 2
\* CacheStorage.open calls per behaviour, the first one included
MaxOpens == 3
\* delete calls made on the persistence itself per behaviour
MaxPersistenceCalls == 2
\* the puts of a run that follows the scores of one Redis index: enough for
\* a counter of two digits and one more record
MaxScorePuts == 12

\* ---------------------------------------------------- program constants
maxExpireIn == 2592000
defaultExpireIn == 2592000
maxInteger == 2147483
pastWindow == 60
defaultKeysLimit == 4
\* _defaultOptions.max of CachePersistenceDenoKv: the clients of its pool
poolMax == 1
\* the max of matchAll and keys, which is never reached
Infinity == 1000000

\* ------------------------------------------------------ input domains
Backends == {"memory", "redis"}
\* keysLimit is a constructor option of the Redis backend (default 4)
KeysLimits == {1, defaultKeysLimit}
\* cache names are sequences of characters (startsWith is a prefix test)
cacheName == <<"v", "1">>
\* the value of the one request header that a Vary header may select
HeaderValues == {"gzip", "br"}
\* the response's Cache-Control max-age in seconds (-1: no Cache-Control)
MaxAges == {-1, 0, 1}
Methods == {"GET", "POST"}
\* the header normalizers a CacheStorage is constructed with: the default
\* one and (name, value) => (name === 'user-agent' ? 'firefox' : value)
Normalizers == {"default", "firefox"}

\* A request is [scheme, path, search, hash, method, header, userAgent]:
\* the four parts of its URL, its method, and the values of its
\* accept-encoding and user-agent headers ("null": absent).  A response is
\* [status, vary, maxAge, bodyUsed, sMaxAge, age, date, expires]: vary is
\* the Vary header ("": absent), and -1 stands for a header that is absent.
\* Query options are [ignoreMethod, ignoreSearch, ignoreVary]
DefaultOptions == [ignoreMethod |-> FALSE, ignoreSearch |-> FALSE,
                   ignoreVary |-> FALSE]

NoOperation == [kind |-> "none"]
\* null: the value of a key that is not stored
Null == [id |-> 0]

\* the persistence objects that share one Deno KV database
Writers == {1, 2}

\* a persistence object that is not inside _dbSet or _dbDel
NoTransaction ==
    [pc |-> "idle", op |-> "none", key |-> <<>>, value |-> Null, ttl |-> 0,
     read |-> [present |-> FALSE, versionstamp |-> 0, index |-> {}]]

\* no CacheStorage.delete is in progress and none has returned
NoStorageCall == [pc |-> "idle", name |-> <<>>, pending |-> <<>>,
                  results |-> <<>>,
                  matched |-> [outcome |-> "none", response |-> Null]]

VARIABLES
    backend,           \* which CachePersistenceLike implementation is used
    keysLimit,         \* CachePersistenceRedis _options.keysLimit
    normalizer,        \* which CacheHeaderNormalizer the CacheStorage was given
    now,               \* Date.now()
    storage,           \* _storage / Redis string keys: record key -> PlainReqRes
    indexes,           \* _indexes / Redis sorted sets: index key -> members
    timers,            \* _timers: record key -> time the removal timer is due
    counter,           \* _counter: timestamp -> records created at it
    nextId,            \* the next monotonic ULID
    batchOperations,   \* Cache._batchOperations
    batchProcessing,   \* Cache._batchProcessing is not null
    current,           \* the operation whose execute() is running, and where
    calls,             \* the put/delete calls made so far and how far each got
    disposeState,      \* Cache[Symbol.asyncDispose]: "none", "waiting", "done"
    disposePending,    \* the calls not yet finished when dispose was called
    failures,          \* persistence calls that have failed so far
    openedCaches,      \* CacheStorage._openedCaches
    cachesCreated,     \* the Cache objects that CacheStorage.open has
                       \* created, each with the persistence it was given
    storageCall,       \* the CacheStorage.delete call in progress, the
                       \* results of the calls that have returned, and
                       \* what the latest CacheStorage.match has returned
    dbPool,            \* _dbPool of each persistence object: the clients
                       \* that are borrowed from it
    versionstamps,     \* Deno KV: index key -> the commits that wrote it
    indexExpires,      \* Redis, Deno KV: index key -> the time at which its
                       \* expiration (PEXPIRE, expireIn) removes it;
                       \* noExpiration for a key that has none
    transactions       \* Deno KV: what each persistence object is doing
                       \* between the read of an index and the commit

vars == <<backend, keysLimit, normalizer, now, storage, indexes, timers,
          counter, nextId,
          batchOperations, batchProcessing, current, calls,
          disposeState, disposePending, failures, openedCaches, cachesCreated,
          storageCall, dbPool, versionstamps, indexExpires, transactions>>

\* ------------------------------------------------------------ helpers
\* persistenceFactory.create(): the default factory, which the memory
\* backend is used with, creates one CachePersistenceMemory and returns it
\* every time; the factory of the Redis backend constructs a
\* CachePersistenceRedis on every call.  Persistences and Cache objects
\* are numbered in the order of their construction
create(objects) == IF backend = "memory" THEN 1 ELSE Len(objects) + 1

\* new this._CacheCtor(cacheName, persistence, this._headerNormalizer)
newCache(objects, name) ==
    [name |-> name, object |-> Len(objects) + 1,
     persistence |-> create(objects)]

Min(a, b) == IF a < b THEN a ELSE b
Max(a, b) == IF a > b THEN a ELSE b

Empty == [x \in {} |-> 0]
Remove(f, k) == [x \in DOMAIN f \ {k} |-> f[x]]
Assign(f, k, v) == [x \in DOMAIN f \cup {k} |-> IF x = k THEN v ELSE f[x]]

\* the keys of a finite set of [rank, key] pairs in ascending order of rank
RECURSIVE Ascending(_)
Ascending(S) ==
    IF S = {} THEN <<>>
    ELSE LET m == CHOOSE x \in S : \A y \in S : x.rank <= y.rank
         IN <<m.key>> \o Ascending(S \ {m})

Reverse(s) == [i \in 1..Len(s) |-> s[Len(s) + 1 - i]]

\* String.prototype.startsWith on cache names
StartsWith(name, prefix) ==
    /\ Len(prefix) <= Len(name)
    /\ SubSeq(name, 1, Len(prefix)) = prefix

\* ------------------------------------------- CachePersistenceBase
\* _digest: the hash of the URL without fragment and query string
digest(url) == url

\* new URL(request.url): the URL of a request in its four parts
urlObject(request) ==
    [scheme |-> request.scheme, path |-> request.path,
     search |-> request.search, hash |-> request.hash]

\* the request URL with the query string cleared and the fragment kept
urlOfKeepingHash(request) ==
    <<request.scheme, request.path, request.hash>>

\* the request URL with fragment and query string cleared, as a string
urlOf(request) ==
    LET reqUrl == [urlObject(request) EXCEPT !.hash = "", !.search = ""]
    IN <<reqUrl.scheme, reqUrl.path>>

\* _persistenceKey(cacheName): the cache-level key
cacheKey(name) == <<"cachestorage", name>>

\* _persistenceKey(cacheName, request): the index key shared by every
\* response stored for the request (fragment and search are cleared)
requestKey(name, request) ==
    <<"cachestorage", name, digest(urlOf(request))>>

\* _persistenceKey(cacheName, plainReqRes) and
\* _persistenceKey(cacheName, request, response): the id is the record's
\* own id, or the x-cachestorage-id header of a response read from the cache
persistenceKey(name, request, id) ==
    <<"cachestorage", name, digest(urlOf(request)), id>>

\* _indexKey: the first three parts of a key
indexKey(key) == SubSeq(key, 1, 3)

\* String.split(':') of a cache name: the pieces between its ':'
RECURSIVE splitName(_, _, _)
splitName(name, i, piece) ==
    IF i > Len(name) THEN <<piece>>
    ELSE IF name[i] = ":" THEN <<piece>> \o splitName(name, i + 1, <<>>)
    ELSE splitName(name, i + 1, Append(piece, name[i]))

\* _joinKey: key.join(':').  The joined string is kept as the parts that
\* _splitKey, key.split(':'), finds in it: they are the parts of the key
\* unless the cache name has a ':' (the digest and the id have none)
joinKey(key) ==
    IF Len(key) < 2 \/ \A i \in DOMAIN key[2] : key[2][i] # ":" THEN key
    ELSE <<key[1]>> \o splitName(key[2], 1, <<>>)
                   \o SubSeq(key, 3, Len(key))

\* an _expiresIn whose corrected age leaves the Age header out
expiresInIgnoringAge(response) ==
    IF response.sMaxAge # -1 \/ response.maxAge # -1
    THEN LET value == IF response.sMaxAge # -1 THEN response.sMaxAge
                      ELSE response.maxAge
             dateTime == IF response.date = -1 THEN now ELSE response.date
             correctedReceivedAge == now - dateTime
             msLeft == Max(value - correctedReceivedAge, 0)
         IN Min(msLeft, maxExpireIn)
    ELSE IF response.expires # -1
         THEN Min(Max(response.expires - now, 0), maxExpireIn)
         ELSE maxExpireIn

\* an _expiresIn that looks for max-age before s-maxage
expiresInMaxAgeFirst(response) ==
    IF response.sMaxAge # -1 \/ response.maxAge # -1
    THEN LET value == IF response.maxAge # -1 THEN response.maxAge
                      ELSE response.sMaxAge
             ageValue == IF response.age = -1 THEN 0 ELSE response.age
             dateTime == IF response.date = -1 THEN now ELSE response.date
             correctedReceivedAge == Max(now - dateTime, ageValue)
             msLeft == Max(value - correctedReceivedAge, 0)
         IN Min(msLeft, maxExpireIn)
    ELSE IF response.expires # -1
         THEN Min(Max(response.expires - now, 0), maxExpireIn)
         ELSE maxExpireIn

\* _expiresIn: seconds left for the response to expire.  A header that is
\* absent is -1; s-maxage has priority over max-age, Cache-Control over
\* Expires, and the result is capped at _maxExpireIn
expiresIn(response) ==
    IF response.sMaxAge # -1 \/ response.maxAge # -1
    THEN LET value == IF response.sMaxAge # -1 THEN response.sMaxAge
                      ELSE response.maxAge
             ageValue == IF response.age = -1 THEN 0 ELSE response.age
             dateTime == IF response.date = -1 THEN now ELSE response.date
             correctedReceivedAge == Max(now - dateTime, ageValue)
             msLeft == Max(value - correctedReceivedAge, 0)
         IN Min(msLeft, maxExpireIn)
    ELSE IF response.expires # -1
         THEN Min(Max(response.expires - now, 0), maxExpireIn)
         ELSE maxExpireIn

\* _expiresIn of cache-persistence-base.ts: Expires is looked at first, then
\* the max-age of Cache-Control (s-maxage is not looked for), and neither
\* value is capped; without both the result is _defaultExpireIn
baseExpiresIn(response) ==
    IF response.expires # -1
    THEN Max(response.expires - now, 0)
    ELSE IF response.maxAge # -1
    THEN LET ageValue == IF response.age = -1 THEN 0 ELSE response.age
             dateTime == IF response.date = -1 THEN now ELSE response.date
             correctedReceivedAge == Max(now - dateTime, ageValue)
         IN Max(response.maxAge - correctedReceivedAge, 0)
    ELSE defaultExpireIn

\* _hasExpired
hasExpired(meta) == now > meta.expires

\* _created, the value returned: [now, count]
created == <<now, IF now \in DOMAIN counter THEN counter[now] ELSE 0>>

\* _created without "this._counter[now] = count + 1"
countersNotRaised ==
    LET raised == Assign(counter, now, created[2])
    IN [t \in {u \in DOMAIN raised : ~(u < now - pastWindow)} |-> raised[t]]

\* _created, the counters left behind: the count of now is raised and the
\* timestamps older than a minute are forgotten
countersAfterCreated ==
    LET raised == Assign(counter, now, created[2] + 1)
    IN [t \in {u \in DOMAIN raised : ~(u < now - pastWindow)} |-> raised[t]]

\* _plainToRequest: the Request rebuilt from a stored record
plainToRequest(item) ==
    [scheme |-> item.reqUrl.scheme, path |-> item.reqUrl.path,
     search |-> item.reqUrl.search, hash |-> item.reqUrl.hash,
     method |-> item.reqMethod,
     header |-> item.reqHeader, userAgent |-> item.reqUserAgent]

\* _pairToPlain: the PlainReqRes of a request/response pair (the caller has
\* checked that expiresIn is positive); body names the Response object
plainReqRes(request, response, body) ==
    [reqUrl |-> [urlObject(request) EXCEPT !.hash = ""],
     reqMethod |-> request.method, reqHeader |-> request.header,
     reqUserAgent |-> request.userAgent,
     resVary |-> response.vary, resBody |-> body,
     id |-> nextId, created |-> created,
     expires |-> created[1] + expiresIn(response)]

\* --------------------------------------------- CachePersistenceMemory
\* The backend state handed from one persistence call to the next:
\* st = [storage, indexes, timers].  A member of an index is a pair
\* [key, score]; the memory backend keeps a plain Set and its score is 0.

\* _dbDel: [st, ret] where ret is whether the key was in _storage.  The key
\* is an array of parts (of delete with a response, or the _splitKey of a
\* joined key) and _indexKey joins its first three
memoryDbDel(st, key) ==
    LET joined == joinKey(key)
        ik == joinKey(indexKey(key))
        index == IF ik \in DOMAIN st.indexes
                 THEN {m \in st.indexes[ik] : m.key # joined}
                 ELSE {}
    IN [st |-> [storage |-> Remove(st.storage, joined),
                timers |-> Remove(st.timers, joined),
                indexes |-> IF ik \notin DOMAIN st.indexes THEN st.indexes
                            ELSE IF index = {} THEN Remove(st.indexes, ik)
                            ELSE Assign(st.indexes, ik, index)],
        ret |-> joined \in DOMAIN st.storage]

\* _scheduleRemoval: the time at which the removal timer is due
scheduleRemoval(ttl) == now + Min(ttl, maxInteger)

\* _dbSet: _indexKey is given the joined key and splits it
memoryDbSet(st, key, value, ttl) ==
    LET joined == joinKey(key)
        ik == joinKey(indexKey(joined))
        index == IF ik \in DOMAIN st.indexes THEN st.indexes[ik] ELSE {}
    IN [storage |-> Assign(st.storage, joined, value),
        indexes |-> Assign(st.indexes, ik,
                           index \cup {[key |-> joined,
                                         score |-> 0]}),
        timers |-> Assign(st.timers, joined, scheduleRemoval(ttl))]

\* _dbKeys: the members of the request's index, [...index].sort().reverse():
\* keys of one index differ in the id alone, so sorted by id, newest first
memoryDbKeys(st, key) ==
    LET ik == joinKey(indexKey(joinKey(key)))
        index == IF ik \in DOMAIN st.indexes THEN st.indexes[ik] ELSE {}
    IN Reverse(Ascending({[rank |-> m.key[Len(m.key)], key |-> m.key] :
                            m \in index}))

\* _dbScan: the members of every index whose joined key starts with the
\* joined cache key, sorted by (a[3] > b[3] ? -1 : 1), highest id first
memoryDbScan(st, key) ==
    LET found == UNION {{m.key : m \in st.indexes[ik]} :
                        ik \in {i \in DOMAIN st.indexes :
                                  /\ i[1] = key[1]
                                  /\ StartsWith(i[2], key[2])}}
    IN Reverse(Ascending({[rank |-> k[4], key |-> k] : k \in found}))

\* _dbGet
memoryDbGet(st, key) ==
    IF joinKey(key) \in DOMAIN st.storage THEN st.storage[joinKey(key)]
    ELSE Null

\* ---------------------------------------------- CachePersistenceRedis
\* 10^n, and the number of decimal digits of n
RECURSIVE Pow10(_)
Pow10(n) == IF n = 0 THEN 1 ELSE 10 * Pow10(n - 1)

RECURSIVE Digits(_)
Digits(n) == IF n < 10 THEN 1 ELSE 1 + Digits(n \div 10)

\* the score given to ZADD: +(+created[0] * 1000 + created[1]), where
\* created[1] is a string, so that + appends its digits to the product
score(c) == (c[1] * 1000) * Pow10(Digits(c[2])) + c[2]

\* a sorted set in Redis order: by score, then by member
RECURSIVE zsetOrder(_)
zsetOrder(S) ==
    IF S = {} THEN <<>>
    ELSE LET m == CHOOSE x \in S : \A y \in S :
                      \/ x.score < y.score
                      \/ x.score = y.score /\ x.key[4] <= y.key[4]
         IN <<m.key>> \o zsetOrder(S \ {m})

\* ZRANGE indexKey -inf +inf BYSCORE LIMIT offset count
zrange(st, ik, offset, count) ==
    LET all == IF ik \in DOMAIN st.indexes
               THEN zsetOrder(st.indexes[ik]) ELSE <<>>
    IN SubSeq(all, offset + 1, Min(offset + count, Len(all)))

\* DEL key and ZREM indexKey key; Redis drops a sorted set left empty
redisDelOne(st, key) ==
    LET ik == indexKey(key)
        index == IF ik \in DOMAIN st.indexes
                 THEN {m \in st.indexes[ik] : m.key # key} ELSE {}
    IN [storage |-> Remove(st.storage, key),
        timers |-> st.timers,
        indexes |-> IF ik \notin DOMAIN st.indexes THEN st.indexes
                    ELSE IF index = {} THEN Remove(st.indexes, ik)
                    ELSE Assign(st.indexes, ik, index)]

RECURSIVE redisDelAll(_, _)
redisDelAll(st, keys) ==
    IF keys = <<>> THEN st
    ELSE redisDelAll(redisDelOne(st, Head(keys)), Tail(keys))

\* _dbDel(...keys): one pipeline of DEL and ZREM per key; the result is
\* result.length && result[0], the reply of the first DEL
redisDbDel(st, keys) ==
    [st |-> redisDelAll(st, keys),
     ret |-> keys # <<>> /\ Head(keys) \in DOMAIN st.storage]

\* _dbSet: SET, PEXPIRE, ZADD and PEXPIRE ... GT of the index.  The blob
\* leaves Redis when its PEXPIRE elapses (see Tick); the GT option never
\* gives an expiry to a sorted set that has none
redisDbSet(st, key, value, ttl) ==
    LET ik == indexKey(key)
        index == IF ik \in DOMAIN st.indexes
                 THEN {m \in st.indexes[ik] : m.key # key} ELSE {}
    IN [storage |-> Assign(st.storage, key, value),
        indexes |-> Assign(st.indexes, ik,
                     index \cup {[key |-> key, score |-> score(value.created)]}),
        timers |-> st.timers]

\* _dbGet: GET; a key without a blob is removed from its index
redisDbGet(st, key) ==
    IF key \in DOMAIN st.storage
    THEN [st |-> st, ret |-> st.storage[key]]
    ELSE [st |-> redisDbDel(st, <<key>>).st, ret |-> Null]

\* _dbScan: SCAN the sorted sets of the cache, pull the members of each
\* with _dbKeys(index, 1000) and keep them sorted as joined key strings
\* (the keys of the one URL of this model differ in the id alone)
redisDbScan(st, key) ==
    LET found == UNION {{m.key : m \in st.indexes[ik]} :
                        ik \in {i \in DOMAIN st.indexes :
                                  i[1] = key[1] /\ i[2] = key[2]}}
    IN Ascending({[rank |-> k[4], key |-> k] : k \in found})

\* ---------------------------------------------- CachePersistenceDenoKv
\* _dbDel: the key leaves its index, the blob is deleted and the index is
\* written back or deleted; nothing is returned
denoKvDbDel(st, key) ==
    LET ik == indexKey(key)
        index == IF ik \in DOMAIN st.indexes
                 THEN {m \in st.indexes[ik] : m.key # key} ELSE {}
    IN [storage |-> Remove(st.storage, key),
        timers |-> st.timers,
        indexes |-> IF index = {} THEN Remove(st.indexes, ik)
                    ELSE Assign(st.indexes, ik, index)]

\* _dbSet: the index with the key added and the blob, in one atomic commit
denoKvDbSet(st, key, value, ttl) ==
    LET ik == indexKey(key)
        index == IF ik \in DOMAIN st.indexes THEN st.indexes[ik] ELSE {}
    IN [storage |-> Assign(st.storage, key, value),
        indexes |-> Assign(st.indexes, ik,
                           index \cup {[key |-> key, score |-> 0]}),
        timers |-> st.timers]

\* _dbKeys: [...indexRes.value].sort().reverse()
denoKvDbKeys(st, key) ==
    LET ik == indexKey(key)
        index == IF ik \in DOMAIN st.indexes THEN st.indexes[ik] ELSE {}
    IN Reverse(Ascending({[rank |-> m.key[4], key |-> m.key] : m \in index}))

\* ------------------------------------------------ the backend in use
dbGet(st, key) ==
    IF backend = "memory"
    THEN [st |-> st, ret |-> memoryDbGet(st, key)]
    ELSE redisDbGet(st, key)

dbSet(st, key, value, ttl) ==
    IF backend = "memory" THEN memoryDbSet(st, key, value, ttl)
    ELSE IF backend = "denokv" THEN denoKvDbSet(st, key, value, ttl)
    ELSE redisDbSet(st, key, value, ttl)

\* a persistence delete that removes every record of the request's index
persistenceDeleteEvery(st, name, request, id) ==
    LET ik == requestKey(name, request)
        gone == {k \in DOMAIN st.storage : indexKey(k) = ik}
    IN [st |-> [storage |-> [k \in DOMAIN st.storage \ gone |-> st.storage[k]],
                indexes |-> Remove(st.indexes, ik),
                timers |-> [k \in DOMAIN st.timers \ gone |-> st.timers[k]]],
        ret |-> gone # {}]

\* a persistence delete that removes the record and reports false
persistenceDeleteReportingFalse(st, name, request, id) ==
    [st |-> IF backend = "memory"
            THEN memoryDbDel(st, persistenceKey(name, request, id)).st
            ELSE redisDbDel(st, <<persistenceKey(name, request, id)>>).st,
     ret |-> FALSE]

\* delete(cacheName, request, response): the record named by the
\* x-cachestorage-id header of a response read from the cache
persistenceDelete(st, name, request, id) ==
    IF backend = "memory"
    THEN memoryDbDel(st, persistenceKey(name, request, id))
    ELSE IF backend = "denokv"
    THEN [st |-> denoKvDbDel(st, persistenceKey(name, request, id)),
          ret |-> TRUE]
    ELSE redisDbDel(st, <<persistenceKey(name, request, id)>>)

\* the loop of the memory backend over the keys of the index: hasDeleted
\* is set when _dbDel returns true
RECURSIVE memoryDeleteKeys(_, _, _)
memoryDeleteKeys(st, keys, hasDeleted) ==
    IF keys = <<>> THEN [st |-> st, ret |-> hasDeleted]
    ELSE LET del == memoryDbDel(st, Head(keys))
         IN memoryDeleteKeys(del.st, Tail(keys), hasDeleted \/ del.ret)

\* the loop of the Deno KV backend: hasDeleted is set for every key
RECURSIVE denoKvDeleteKeys(_, _, _)
denoKvDeleteKeys(st, keys, hasDeleted) ==
    IF keys = <<>> THEN [st |-> st, ret |-> hasDeleted]
    ELSE denoKvDeleteKeys(denoKvDbDel(st, Head(keys)), Tail(keys), TRUE)

\* a delete without a response that removes the first key of the index only
persistenceDeleteRequestFirstKey(st, name, request) ==
    IF memoryDbKeys(st, requestKey(name, request)) = <<>>
    THEN [st |-> st, ret |-> FALSE]
    ELSE memoryDbDel(st, Head(memoryDbKeys(st, requestKey(name, request))))

\* delete(cacheName, request) without a response: every key of the index
\* of the request.  The Redis backend collects the members with _dbKeys
\* and deletes them in one _dbDel
persistenceDeleteRequest(st, name, request) ==
    IF backend = "memory"
    THEN memoryDeleteKeys(st, memoryDbKeys(st, requestKey(name, request)),
                          FALSE)
    ELSE IF backend = "denokv"
    THEN denoKvDeleteKeys(st, denoKvDbKeys(st, requestKey(name, request)),
                          FALSE)
    ELSE redisDbDel(st, zrange(st, requestKey(name, request), 0, Infinity))

\* persistence put without the check "expiresIn <= 0" of _pairToPlain
persistencePutAlways(st, name, request, response, body) ==
    LET value == plainReqRes(request, response, body)
    IN [st |-> dbSet(st, persistenceKey(name, request, value.id),
                     value, expiresIn(response)),
        ret |-> TRUE]

\* put(cacheName, request, response): nothing is written and false is
\* returned when the response has already expired
persistencePut(st, name, request, response, body) ==
    IF expiresIn(response) <= 0
    THEN [st |-> st, ret |-> FALSE]
    ELSE LET value == plainReqRes(request, response, body)
         IN [st |-> dbSet(st, persistenceKey(name, request, value.id),
                          value, expiresIn(response)),
             ret |-> TRUE]

\* -------------------------------------------------------------- Cache
\* the CacheHeaderNormalizer given to CacheStorage: (_, v) => v by
\* default, or one that puts every user-agent in the bucket "firefox"
headerNormalizer(name, value) ==
    IF normalizer = "default" THEN value
    ELSE IF name = "user-agent" THEN "firefox" ELSE value

\* the headers of a request and of the request of a stored record
headersOf(request) ==
    [acceptEncoding |-> request.header, userAgent |-> request.userAgent]

headersOfItem(item) ==
    [acceptEncoding |-> item.reqHeader, userAgent |-> item.reqUserAgent]

\* a Headers.get that finds no header
headersGetNothing(headers, field) == "null"

\* Headers.get of a header name ("null": the header is absent)
headersGet(headers, field) ==
    IF field = "accept-encoding" THEN headers.acceptEncoding
    ELSE IF field = "user-agent" THEN headers.userAgent
    ELSE "null"

\* varyHeader.split(','): the fields keep the spaces written around them
varyFields(vary) ==
    IF vary = "" THEN <<>>
    ELSE IF vary = "accept-encoding,user-agent"
    THEN <<"accept-encoding", "user-agent">>
    ELSE IF vary = "accept-encoding, user-agent"
    THEN <<"accept-encoding", " user-agent">>
    ELSE <<vary>>

\* String.prototype.trim
trim(fieldValue) ==
    IF fieldValue = " user-agent" THEN "user-agent"
    ELSE IF fieldValue = " *" THEN "*"
    ELSE fieldValue

\* whether Headers.get accepts the name: a name holding a space is not a
\* header name and Headers.get throws a TypeError
isHeaderName(fieldValue) == fieldValue \notin {" user-agent", " *"}

\* step 7 of _requestMatchesCachedItem from the i-th field of Vary on:
\* "true", "false", or "throw" when Headers.get throws
RECURSIVE varyOutcome(_, _, _, _)
varyOutcome(fields, i, cachedHeaders, queryHeaders) ==
    IF i > Len(fields) THEN "true"
    ELSE LET fieldValue == fields[i]
         IN IF trim(fieldValue) = "*" THEN "false"
            ELSE IF ~isHeaderName(fieldValue) THEN "throw"
            ELSE IF headerNormalizer(fieldValue,
                                     headersGet(cachedHeaders, fieldValue))
                      # headerNormalizer(fieldValue,
                                         headersGet(queryHeaders, fieldValue))
            THEN "false"
            ELSE varyOutcome(fields, i + 1, cachedHeaders, queryHeaders)

\* a _requestMatchesCachedItem that compares the query strings even with
\* ignoreSearch
requestMatchesCachedItemKeepingSearch(requestQuery, item, options) ==
    IF ~options.ignoreMethod /\ item.reqMethod # "GET" THEN "false"
    ELSE IF [urlObject(requestQuery) EXCEPT !.hash = ""]
              # [item.reqUrl EXCEPT !.hash = ""]
    THEN "false"
    ELSE IF options.ignoreVary \/ item.resVary = "" THEN "true"
    ELSE varyOutcome(varyFields(item.resVary), 1,
                     headersOfItem(item), headersOf(requestQuery))

\* _requestMatchesCachedItem of the query against a stored record: "true",
\* "false", or "throw"
requestMatchesCachedItem(requestQuery, item, options) ==
    IF ~options.ignoreMethod /\ item.reqMethod # "GET" THEN "false"
    ELSE LET queryUrl == [urlObject(requestQuery) EXCEPT
                             !.search = IF options.ignoreSearch THEN ""
                                        ELSE @,
                             !.hash = ""]
             cachedUrl == [item.reqUrl EXCEPT
                             !.search = IF options.ignoreSearch THEN ""
                                        ELSE @,
                             !.hash = ""]
         IN IF queryUrl # cachedUrl THEN "false"
            ELSE IF options.ignoreVary \/ item.resVary = "" THEN "true"
            ELSE varyOutcome(varyFields(item.resVary), 1,
                             headersOfItem(item), headersOf(requestQuery))

\* The loop "for await (... of persistence.get(cacheName, request))" of
\* _matchMax (consume = "match": collect the matching records, stop at max)
\* and of Cache.delete (consume = "delete": delete every matching record).
\* page holds the keys fetched and not yet visited.  The memory backend
\* walks the array _dbKeys returned; the Redis backend asks for the next
\* window at the offset reached, from the sorted set as it is by then.
\* The loop ends with threw set when _requestMatchesCachedItem throws
\* (what _dbGet and delete return is bound with CHOOSE over a singleton
\* set, which has it computed once per turn of the loop)
RECURSIVE getLoop(_, _, _, _, _, _, _, _, _)
getLoop(st, name, offset, page, consume, request, options, max, acc) ==
    IF page = <<>>
    THEN IF backend = "memory"
         THEN [st |-> st, out |-> acc.out, hasDeleted |-> acc.hasDeleted,
               threw |-> FALSE]
         ELSE LET result == zrange(st, requestKey(name, request), offset,
                                   Max(keysLimit, 1))
              IN IF result = <<>>
                 THEN [st |-> st, out |-> acc.out,
                       hasDeleted |-> acc.hasDeleted, threw |-> FALSE]
                 ELSE getLoop(st, name, offset + Len(result), result,
                              consume, request, options, max, acc)
    ELSE CHOOSE r \in
           {LET item == got.ret
                matches == IF item = Null \/ hasExpired(item) THEN "false"
                           ELSE requestMatchesCachedItem(request, item,
                                                         options)
            IN IF matches = "throw"
               THEN [st |-> got.st, out |-> <<>>,
                     hasDeleted |-> acc.hasDeleted, threw |-> TRUE]
               ELSE IF matches = "false"
               THEN getLoop(got.st, name, offset, Tail(page), consume,
                            request, options, max, acc)
               ELSE IF consume = "delete"
               THEN CHOOSE d \in
                      {getLoop(del.st, name, offset, Tail(page), consume,
                               request, options, max,
                               [out |-> acc.out,
                                hasDeleted |-> acc.hasDeleted \/ del.ret]) :
                         del \in {persistenceDelete(got.st, name, request,
                                                    item.id)}} : TRUE
               ELSE IF Len(acc.out) + 1 >= max
               THEN [st |-> got.st, out |-> Append(acc.out, item),
                     hasDeleted |-> acc.hasDeleted, threw |-> FALSE]
               ELSE getLoop(got.st, name, offset, Tail(page), consume,
                            request, options, max,
                            [out |-> Append(acc.out, item),
                             hasDeleted |-> acc.hasDeleted]) :
              got \in {dbGet(st, Head(page))}} : TRUE

\* the keys the loop starts from
firstPage(st, name, request) ==
    IF backend = "memory" THEN memoryDbKeys(st, requestKey(name, request))
    ELSE <<>>

\* the loop of _matchMax over persistence[Symbol.asyncIterator](cacheName):
\* every record of the cache whose blob is present, up to max
RECURSIVE iterateLoop(_, _, _, _)
iterateLoop(st, keys, max, out) ==
    IF keys = <<>> THEN [st |-> st, out |-> out]
    ELSE LET got == dbGet(st, Head(keys))
         IN IF got.ret = Null
            THEN iterateLoop(got.st, Tail(keys), max, out)
            ELSE IF Len(out) + 1 >= max
            THEN [st |-> got.st, out |-> Append(out, got.ret)]
            ELSE iterateLoop(got.st, Tail(keys), max, Append(out, got.ret))

dbScan(st, key) ==
    IF backend = "memory" THEN memoryDbScan(st, key) ELSE redisDbScan(st, key)

\* _matchMax(max, keys, request, options): [st, out, threw], out being the
\* records whose response (or request) is returned, threw whether the call
\* rejects instead.  request = Null is a call without a request
matchMax(st, name, max, request, options) ==
    IF request = Null
    THEN LET r == iterateLoop(st, dbScan(st, cacheKey(name)), max, <<>>)
         IN [st |-> r.st, out |-> r.out, threw |-> FALSE]
    ELSE IF ~options.ignoreMethod /\ request.method # "GET"
    THEN [st |-> st, out |-> <<>>, threw |-> FALSE]
    ELSE LET r == getLoop(st, name, 0, firstPage(st, name, request), "match",
                          request, options, max,
                          [out |-> <<>>, hasDeleted |-> FALSE])
         IN [st |-> r.st, out |-> r.out, threw |-> r.threw]

\* ------------------------------------------------- the operation queue
backendState == [storage |-> storage, indexes |-> indexes, timers |-> timers]

\* a call changes phase: "rejected" (put threw before enqueueing),
\* "returned" (delete returned false before enqueueing), "queued",
\* "running", "done" (its promise is resolved), "failed" (execute threw)
setPhase(cs, call, phase, result) ==
    [cs EXCEPT ![call] = [kind |-> cs[call].kind, phase |-> phase,
                          result |-> result]]

\* the promise returned by a call
promiseOf(c) ==
    IF c.phase = "rejected" THEN "rejected"
    ELSE IF c.phase \in {"done", "returned"} THEN "resolved"
    ELSE "pending"

\* [Symbol.asyncDispose] of the persistence: the memory backend clears its
\* timers, the Redis backend drains its pool
persistenceDispose(t) == IF backend = "memory" THEN Empty ELSE t

\* _processBatchOperations taking the operation enqueued last (pop for shift)
processBatchOperationsLifo(q, cs, t) ==
    IF q = <<>>
    THEN [queue |-> q, processing |-> FALSE, current |-> NoOperation,
          calls |-> cs,
          dispose |-> IF disposeState = "waiting" THEN "done"
                      ELSE disposeState,
          timers |-> IF disposeState = "waiting" THEN persistenceDispose(t)
                     ELSE t]
    ELSE [queue |-> SubSeq(q, 1, Len(q) - 1), processing |-> TRUE,
          current |-> [op |-> q[Len(q)], pc |-> "start"],
          calls |-> setPhase(cs, q[Len(q)].call, "running", "none"),
          dispose |-> disposeState, timers |-> t]

\* _processBatchOperations with _batchProcessing set: the next operation is
\* shifted and its execute() started; with none left the promise is
\* resolved, _batchProcessing is null again and a waiting dispose goes on
\* to dispose the persistence.  q, cs, t: the queue, the calls, the timers
processBatchOperations(q, cs, t) ==
    IF q = <<>>
    THEN [queue |-> q, processing |-> FALSE, current |-> NoOperation,
          calls |-> cs,
          dispose |-> IF disposeState = "waiting" THEN "done"
                      ELSE disposeState,
          timers |-> IF disposeState = "waiting" THEN persistenceDispose(t)
                     ELSE t]
    ELSE [queue |-> Tail(q), processing |-> TRUE,
          current |-> [op |-> Head(q), pc |-> "start"],
          calls |-> setPhase(cs, Head(q).call, "running", "none"),
          dispose |-> disposeState, timers |-> t]

\* _enqueueBatchOperation: push, and start processing unless a drain loop
\* is already running
enqueueBatchOperation(operation, cs) ==
    LET q == Append(batchOperations, operation)
    IN IF ~batchProcessing
       THEN processBatchOperations(q, cs, timers)
       ELSE [queue |-> q, processing |-> batchProcessing,
             current |-> current, calls |-> cs,
             dispose |-> disposeState, timers |-> timers]

\* the queue variables after processBatchOperations / enqueueBatchOperation
\* (the actions bind a result with \E over a singleton set, which has it
\* computed once)
QueueBecomes(r) ==
    /\ batchOperations' = r.queue
    /\ batchProcessing' = r.processing
    /\ current' = r.current
    /\ calls' = r.calls
    /\ disposeState' = r.dispose

\* the checks of Cache.put without the one of the 206 status
putIsValidIgnoringStatus(request, response) ==
    /\ request.scheme \in {"http:", "https:"}
    /\ request.method = "GET"
    /\ \A i \in DOMAIN varyFields(response.vary) :
         trim(varyFields(response.vary)[i]) # "*"
    /\ ~response.bodyUsed

\* Cache.put: the checks made before anything is enqueued
putIsValid(request, response) ==
    /\ request.scheme \in {"http:", "https:"}
    /\ request.method = "GET"
    /\ response.status # 206
    /\ \A i \in DOMAIN varyFields(response.vary) :
         trim(varyFields(response.vary)[i]) # "*"
    /\ ~response.bodyUsed

Init ==
    /\ backend \in Backends
    /\ keysLimit \in IF backend = "redis" THEN KeysLimits
                     ELSE {defaultKeysLimit}
    /\ normalizer = "default"
    /\ now = 0
    /\ storage = Empty
    /\ indexes = Empty
    /\ timers = Empty
    /\ counter = Empty
    /\ nextId = 1
    /\ batchOperations = <<>>
    /\ batchProcessing = FALSE
    /\ current = NoOperation
    /\ calls = <<>>
    /\ disposeState = "none"
    /\ disposePending = {}
    /\ failures = 0
    /\ openedCaches = <<cacheName>>
    /\ cachesCreated = <<newCache(<<>>, cacheName)>>
    /\ storageCall = NoStorageCall
    /\ dbPool = [w \in Writers |-> 0]
    /\ versionstamps = <<>>
    /\ indexExpires = Empty
    /\ transactions = [w \in Writers |-> NoTransaction]

\* Cache.put(request, response)
Put(request, response) ==
    /\ Len(calls) < MaxCalls
    /\ disposeState # "done"
    /\ IF ~putIsValid(request, response)
       THEN /\ calls' = Append(calls, [kind |-> "put", phase |-> "rejected",
                                       result |-> "none"])
            /\ UNCHANGED <<batchOperations, batchProcessing, current,
                           disposeState>>
       ELSE QueueBecomes(enqueueBatchOperation(
                [kind |-> "put", call |-> Len(calls) + 1,
                 request |-> request, response |-> response],
                Append(calls, [kind |-> "put", phase |-> "queued",
                               result |-> "none"])))
    /\ UNCHANGED <<indexExpires, dbPool, versionstamps, transactions, backend, keysLimit, normalizer, openedCaches, cachesCreated,
                   storageCall, now, storage, indexes, timers,
                   counter, nextId, disposePending, failures>>

\* a Cache.delete that enqueues whatever the method of the request
DeleteWithoutMethodCheck(request, options) ==
    /\ Len(calls) < MaxCalls
    /\ disposeState # "done"
    /\ QueueBecomes(enqueueBatchOperation(
            [kind |-> "delete", call |-> Len(calls) + 1,
             request |-> request, options |-> options],
            Append(calls, [kind |-> "delete", phase |-> "queued",
                           result |-> "none"])))
    /\ UNCHANGED <<indexExpires, dbPool, versionstamps, transactions, backend, keysLimit, normalizer, openedCaches, cachesCreated,
                   storageCall, now, storage, indexes,
                   timers, counter, nextId, disposePending, failures>>

\* Cache.delete(request, options)
Delete(request, options) ==
    /\ Len(calls) < MaxCalls
    /\ disposeState # "done"
    /\ IF ~options.ignoreMethod /\ request.method # "GET"
       THEN /\ calls' = Append(calls, [kind |-> "delete",
                                       phase |-> "returned",
                                       result |-> "false"])
            /\ UNCHANGED <<batchOperations, batchProcessing, current,
                           disposeState>>
       ELSE QueueBecomes(enqueueBatchOperation(
                [kind |-> "delete", call |-> Len(calls) + 1,
                 request |-> request, options |-> options],
                Append(calls, [kind |-> "delete", phase |-> "queued",
                               result |-> "none"])))
    /\ UNCHANGED <<indexExpires, dbPool, versionstamps, transactions, backend, keysLimit, normalizer, openedCaches, cachesCreated,
                   storageCall, now, storage, indexes, timers,
                   counter, nextId, disposePending, failures>>

\* execute() of a put, first part: the response that matches the request
\* now, if there is one, is deleted.  When match throws, execute() throws:
\* the catch block logs the error, the finally block goes on with the queue
\* and the promise of the call is not settled
ExecPutMatch ==
    /\ current # NoOperation
    /\ current.op.kind = "put"
    /\ current.pc = "start"
    /\ \E m \in {matchMax(backendState, cacheName, 1, current.op.request,
                          DefaultOptions)} :
       IF m.threw
       THEN \E next \in {processBatchOperations(batchOperations,
                             setPhase(calls, current.op.call, "failed",
                                      "none"),
                             m.st.timers)} :
               /\ storage' = m.st.storage
               /\ indexes' = m.st.indexes
               /\ timers' = next.timers
               /\ QueueBecomes(next)
       ELSE \E st \in {IF m.out # <<>>
                       THEN persistenceDelete(m.st, cacheName,
                                              current.op.request,
                                              m.out[1].id).st
                       ELSE m.st} :
               /\ storage' = st.storage
               /\ indexes' = st.indexes
               /\ timers' = st.timers
               /\ current' = [current EXCEPT !.pc = "put"]
               /\ UNCHANGED <<batchOperations, batchProcessing, calls,
                              disposeState>>
    /\ UNCHANGED <<indexExpires, dbPool, versionstamps, transactions, backend, keysLimit, normalizer, openedCaches, cachesCreated,
                   storageCall, now, counter, nextId,
                   disposePending, failures>>

\* execute() of a put, second part: persistence.put, the promise of the
\* call is resolved, and the finally block goes on with the queue.  The
\* result kept for the call is the boolean that persistence.put returned
ExecPutStore ==
    /\ current # NoOperation
    /\ current.op.kind = "put"
    /\ current.pc = "put"
    /\ \E r \in {persistencePut(backendState, cacheName, current.op.request,
                                 current.op.response, current.op.call)} :
       \E next \in {processBatchOperations(batchOperations,
                        setPhase(calls, current.op.call, "done",
                                 IF r.ret THEN "true" ELSE "false"),
                        r.st.timers)} :
          /\ storage' = r.st.storage
          /\ indexes' = r.st.indexes
          /\ timers' = next.timers
          /\ nextId' = IF r.ret THEN nextId + 1 ELSE nextId
          /\ counter' = IF r.ret THEN countersAfterCreated ELSE counter
          /\ QueueBecomes(next)
    /\ UNCHANGED <<indexExpires, dbPool, versionstamps, transactions, backend, keysLimit, normalizer, openedCaches, cachesCreated,
                   storageCall, now, disposePending, failures>>

\* execute() of a delete: every record that persistence.get yields and that
\* matches is deleted, the promise is resolved with hasDeleted, and the
\* finally block goes on with the queue.  When _requestMatchesCachedItem
\* throws, execute() throws and the promise of the call is not settled
ExecDelete ==
    /\ current # NoOperation
    /\ current.op.kind = "delete"
    /\ \E r \in {getLoop(backendState, cacheName, 0,
                          firstPage(backendState, cacheName,
                                    current.op.request),
                          "delete", current.op.request, current.op.options,
                          Infinity, [out |-> <<>>, hasDeleted |-> FALSE])} :
       \E next \in {processBatchOperations(batchOperations,
                        IF r.threw
                        THEN setPhase(calls, current.op.call, "failed",
                                      "none")
                        ELSE setPhase(calls, current.op.call, "done",
                                      IF r.hasDeleted THEN "true"
                                      ELSE "false"),
                        r.st.timers)} :
          /\ storage' = r.st.storage
          /\ indexes' = r.st.indexes
          /\ timers' = next.timers
          /\ QueueBecomes(next)
    /\ UNCHANGED <<indexExpires, dbPool, versionstamps, transactions, backend, keysLimit, normalizer, openedCaches, cachesCreated,
                   storageCall, now, counter, nextId, disposePending,
                   failures>>

\* a failure that ends the drain loop: no finally block, the queue is left
\* as it is with _batchProcessing still set
ExecFailAbortsLoop ==
    /\ current # NoOperation
    /\ failures < MaxFailures
    /\ failures' = failures + 1
    /\ calls' = setPhase(calls, current.op.call, "failed", "none")
    /\ current' = NoOperation
    /\ UNCHANGED <<indexExpires, dbPool, versionstamps, transactions, backend, keysLimit, normalizer, openedCaches, cachesCreated,
                   storageCall, now, storage, indexes, timers, counter,
                   nextId, batchOperations, batchProcessing, disposeState,
                   disposePending>>

\* a persistence call of the running operation rejects (a Redis command or
\* the pool fails, the body of the Response was consumed by an earlier put):
\* execute() throws, the catch block logs the error and the finally block
\* goes on with the queue.  The promise of the call is not settled
ExecFail ==
    /\ current # NoOperation
    /\ failures < MaxFailures
    /\ failures' = failures + 1
    /\ \E next \in {processBatchOperations(batchOperations,
                        setPhase(calls, current.op.call, "failed", "none"),
                        timers)} :
          /\ timers' = next.timers
          /\ QueueBecomes(next)
    /\ UNCHANGED <<indexExpires, dbPool, versionstamps, transactions, backend, keysLimit, normalizer, openedCaches, cachesCreated,
                   storageCall, now, storage, indexes, counter,
                   nextId, disposePending>>

\* a dispose that does not await the promise of the drain loop
DisposeWithoutWaiting ==
    /\ disposeState = "none"
    /\ disposePending' = {k \in DOMAIN calls :
                            calls[k].phase \in {"queued", "running"}}
    /\ disposeState' = "done"
    /\ timers' = persistenceDispose(timers)
    /\ UNCHANGED <<indexExpires, dbPool, versionstamps, transactions, backend, keysLimit, normalizer, openedCaches, cachesCreated,
                   storageCall, now, storage, indexes, counter,
                   nextId, batchOperations, batchProcessing, current, calls,
                   failures>>

\* Cache[Symbol.asyncDispose]: with no drain loop running the persistence is
\* disposed at once, otherwise after the promise of the loop is resolved
Dispose ==
    /\ disposeState = "none"
    /\ disposePending' = {k \in DOMAIN calls :
                            calls[k].phase \in {"queued", "running"}}
    /\ IF ~batchProcessing
       THEN /\ disposeState' = "done"
            /\ timers' = persistenceDispose(timers)
       ELSE /\ disposeState' = "waiting"
            /\ timers' = timers
    /\ UNCHANGED <<indexExpires, dbPool, versionstamps, transactions, backend, keysLimit, normalizer, openedCaches, cachesCreated,
                   storageCall, now, storage, indexes, counter,
                   nextId, batchOperations, batchProcessing, current, calls,
                   failures>>

\* a read that waits until the queue is empty and no operation is running
ReadAfterQueue(request, options, max) ==
    /\ batchOperations = <<>>
    /\ current = NoOperation
    /\ backend = "memory" \/ disposeState # "done"
    /\ \E r \in {matchMax(backendState, cacheName, max, request, options)} :
          /\ storage' = r.st.storage
          /\ indexes' = r.st.indexes
          /\ timers' = r.st.timers
    /\ UNCHANGED <<indexExpires, dbPool, versionstamps, transactions, backend,
                   keysLimit, normalizer, openedCaches, cachesCreated,
                   storageCall, now, counter, nextId, batchOperations,
                   batchProcessing, current, calls, disposeState,
                   disposePending, failures>>

\* match (max = 1), matchAll and keys (max = Infinity), with a request or
\* without one (Null).  They do not go through the queue.  The Redis
\* backend drops from the index the keys whose blob it does not find,
\* also when the call goes on to throw
Read(request, options, max) ==
    /\ backend = "memory" \/ disposeState # "done"
    /\ \E r \in {matchMax(backendState, cacheName, max, request, options)} :
          /\ storage' = r.st.storage
          /\ indexes' = r.st.indexes
          /\ timers' = r.st.timers
    /\ UNCHANGED <<indexExpires, dbPool, versionstamps, transactions, backend, keysLimit, normalizer, openedCaches, cachesCreated,
                   storageCall, now, counter, nextId, batchOperations,
                   batchProcessing, current, calls, disposeState, disposePending,
                   failures>>

\* the removal timer of a record of the memory backend fires, at its due
\* time or later: this._dbDel(this._splitKey(persistenceKey))
TimerFires(key) ==
    /\ backend = "memory"
    /\ key \in DOMAIN timers
    /\ timers[key] <= now
    /\ \E st \in {memoryDbDel(backendState, key).st} :
          /\ storage' = st.storage
          /\ indexes' = st.indexes
          /\ timers' = st.timers
    /\ UNCHANGED <<indexExpires, dbPool, versionstamps, transactions, backend, keysLimit, normalizer, openedCaches, cachesCreated,
                   storageCall, now, counter, nextId, batchOperations,
                   batchProcessing, current, calls, disposeState,
                   disposePending, failures>>

\* a second passes; Redis removes the blobs whose PEXPIRE has elapsed
Tick ==
    /\ now < MaxTime
    /\ now' = now + 1
    /\ storage' = IF backend = "redis"
                  THEN [k \in {x \in DOMAIN storage :
                                 storage[x].expires > now + 1} |-> storage[k]]
                  ELSE storage
    /\ UNCHANGED <<indexExpires, dbPool, versionstamps, transactions, backend, keysLimit, normalizer, openedCaches, cachesCreated,
                   storageCall, indexes, timers, counter, nextId,
                   batchOperations, batchProcessing, current, calls,
                   disposeState, disposePending, failures>>

\* -------------------------------------------------------- CacheStorage
\* the names a CacheStorage is asked about: the cache of this model and a
\* name that is a prefix of it, which is not opened to begin with
CacheNames == {cacheName, <<"v">>}

\* the elements of a sequence
Range(seq) == {seq[i] : i \in DOMAIN seq}

\* the character codes that order the joined keys of the cache names
charCode(c) == IF c = "v" THEN 118 ELSE IF c = "1" THEN 49 ELSE 58

\* where the joined keys 'cachestorage:<name>:...' of a cache stand among
\* the sorted keys of all caches: the name is followed by the delimiter ':'
joinedRank(name) ==
    LET joined == name \o <<":", ":">>
    IN charCode(joined[1]) * 65536 + charCode(joined[2]) * 256
          + charCode(joined[3])

\* the names of a set in the order in which a walk over the sorted keys
\* adds them to new Set<string>()
inKeyOrder(names) ==
    Ascending({[rank |-> joinedRank(name), key |-> name] : name \in names})

\* CachePersistenceRedis.keys(): the cache name of every member that
\* _dbScan(['cachestorage', '*', '*']) finds in the sorted sets
redisKeys(st) ==
    inKeyOrder({m.key[2] : m \in UNION {st.indexes[ik] :
                                          ik \in DOMAIN st.indexes}})

\* keys() of the memory backend: the names of the caches that currently
\* hold a record
memoryKeys(st) == inKeyOrder({k[2] : k \in DOMAIN st.storage})

\* persistence.keys()
persistenceKeys(st) ==
    IF backend = "memory" THEN memoryKeys(st) ELSE redisKeys(st)

\* a keys() that leaves out the names that only _openedCaches holds
storageKeysUnmerged(st, opened) == persistenceKeys(st)

\* CacheStorage.keys(): the names the persistence reports, followed by the
\* opened names that it does not report
storageKeys(st, opened) ==
    LET allCacheNames == persistenceKeys(st)
        missing(name) == name \notin Range(allCacheNames)
    IN allCacheNames \o SelectSeq(opened, missing)

\* CacheStorage.has(cacheName)
has(st, opened, name) == name \in Range(storageKeys(st, opened))

\* the requests that cache.keys() returns
requestsOf(items) == [i \in DOMAIN items |-> plainToRequest(items[i])]

\* Array.prototype.findIndex, 0 standing for -1
RECURSIVE findIndex(_, _, _)
findIndex(seq, name, i) ==
    IF i > Len(seq) THEN 0
    ELSE IF seq[i] = name THEN i
    ELSE findIndex(seq, name, i + 1)

\* _openedCaches.splice(findIndex(...), 1); splice(-1, 1) removes the last
\* element
splice(seq, name) ==
    LET found == findIndex(seq, name, 1)
        at == IF found = 0 THEN Len(seq) ELSE found
    IN IF seq = <<>> THEN seq
       ELSE SubSeq(seq, 1, at - 1) \o SubSeq(seq, at + 1, Len(seq))

\* the options CacheStorage.delete passes to cache.delete
DeleteOptions == [ignoreMethod |-> TRUE, ignoreSearch |-> TRUE,
                  ignoreVary |-> TRUE]

\* CacheStorage.open(cacheName): a Cache is constructed and the name is
\* remembered once
Open(name) ==
    /\ Len(cachesCreated) < MaxOpens
    /\ cachesCreated' = Append(cachesCreated, newCache(cachesCreated, name))
    /\ openedCaches' = IF name \in Range(openedCaches) THEN openedCaches
                       ELSE Append(openedCaches, name)
    /\ UNCHANGED <<indexExpires, dbPool, versionstamps, transactions, backend, keysLimit, normalizer, storageCall, now, storage,
                   indexes, timers, counter, nextId, batchOperations,
                   batchProcessing, current, calls, disposeState,
                   disposePending, failures>>

\* CacheStorage.delete(cacheName) up to its loop: has() asks keys(), which
\* disposes the persistence it asked; when the name is known the cache is
\* opened and cache.keys() lists the requests to delete
StorageDeleteStart(name) ==
    /\ storageCall.pc = "idle"
    /\ Len(storageCall.results) < MaxStorageDeletes
    /\ IF ~has(backendState, openedCaches, name)
       THEN /\ storageCall' =
                  [storageCall EXCEPT
                      !.results = Append(@, [name |-> name,
                                             result |-> FALSE])]
            /\ timers' = persistenceDispose(timers)
            /\ UNCHANGED <<storage, indexes, openedCaches, cachesCreated>>
       ELSE \E r \in {matchMax([backendState EXCEPT
                                   !.timers = persistenceDispose(timers)],
                               name, Infinity, Null, DefaultOptions)} :
               /\ storage' = r.st.storage
               /\ indexes' = r.st.indexes
               /\ timers' = r.st.timers
               /\ openedCaches' = IF name \in Range(openedCaches)
                                  THEN openedCaches
                                  ELSE Append(openedCaches, name)
               /\ cachesCreated' = Append(cachesCreated,
                                          newCache(cachesCreated, name))
               /\ storageCall' = [storageCall EXCEPT
                                     !.pc = "deleting", !.name = name,
                                     !.pending = requestsOf(r.out)]
    /\ UNCHANGED <<indexExpires, dbPool, versionstamps, transactions, backend, keysLimit, normalizer, now, counter, nextId,
                   batchOperations, batchProcessing, current, calls,
                   disposeState, disposePending, failures>>

\* one round of the loop: await cache.delete(request, DeleteOptions) on the
\* cache that CacheStorage.delete opened, whose queue holds nothing else
StorageDeleteOne ==
    /\ storageCall.pc = "deleting"
    /\ storageCall.pending # <<>>
    /\ \E r \in {getLoop(backendState, storageCall.name, 0,
                          firstPage(backendState, storageCall.name,
                                    Head(storageCall.pending)),
                          "delete", Head(storageCall.pending), DeleteOptions,
                          Infinity, [out |-> <<>>, hasDeleted |-> FALSE])} :
          /\ storage' = r.st.storage
          /\ indexes' = r.st.indexes
          /\ timers' = r.st.timers
    /\ storageCall' = [storageCall EXCEPT !.pending = Tail(@)]
    /\ UNCHANGED <<indexExpires, dbPool, versionstamps, transactions, backend, keysLimit, normalizer, openedCaches,
                   cachesCreated, now,
                   counter, nextId, batchOperations, batchProcessing,
                   current, calls, disposeState, disposePending, failures>>

\* the end of CacheStorage.delete: the name is spliced out of
\* _openedCaches, true is returned and the cache is disposed
StorageDeleteReturn ==
    /\ storageCall.pc = "deleting"
    /\ storageCall.pending = <<>>
    /\ openedCaches' = splice(openedCaches, storageCall.name)
    /\ timers' = persistenceDispose(timers)
    /\ storageCall' = [pc |-> "idle", name |-> <<>>, pending |-> <<>>,
                       results |-> Append(storageCall.results,
                                          [name |-> storageCall.name,
                                           result |-> TRUE]),
                       matched |-> storageCall.matched]
    /\ UNCHANGED <<indexExpires, dbPool, versionstamps, transactions, backend, keysLimit, normalizer, cachesCreated, now,
                   storage, indexes, counter, nextId, batchOperations,
                   batchProcessing, current, calls, disposeState,
                   disposePending, failures>>

\* the Cache objects that open constructs for the names visited
RECURSIVE newCaches(_, _, _, _)
newCaches(objects, names, i, visited) ==
    IF i > visited THEN objects
    ELSE newCaches(Append(objects, newCache(objects, names[i])), names,
                   i + 1, visited)

\* a loop that goes on after a response was found and returns the last one
RECURSIVE storageMatchLoopToTheEnd(_, _, _, _, _)
storageMatchLoopToTheEnd(st, names, i, request, options) ==
    IF i > Len(names)
    THEN [st |-> st, ret |-> Null, visited |-> Len(names), threw |-> FALSE]
    ELSE LET m == matchMax(st, names[i], 1, request, options)
             disposed == [m.st EXCEPT !.timers = persistenceDispose(@)]
             rest == storageMatchLoopToTheEnd(disposed, names, i + 1,
                                              request, options)
         IN IF rest.ret = Null /\ m.out # <<>>
            THEN [rest EXCEPT !.ret = m.out[1]]
            ELSE rest

\* the loop of CacheStorage.match over the names of keys(): each cache is
\* opened, asked for its first match and disposed; the loop ends at the
\* first response, or when cache.match throws
RECURSIVE storageMatchLoop(_, _, _, _, _)
storageMatchLoop(st, names, i, request, options) ==
    IF i > Len(names)
    THEN [st |-> st, ret |-> Null, visited |-> Len(names), threw |-> FALSE]
    ELSE LET m == matchMax(st, names[i], 1, request, options)
             disposed == [m.st EXCEPT !.timers = persistenceDispose(@)]
         IN IF m.threw
            THEN [st |-> disposed, ret |-> Null, visited |-> i,
                  threw |-> TRUE]
            ELSE IF m.out # <<>>
            THEN [st |-> disposed, ret |-> m.out[1], visited |-> i,
                  threw |-> FALSE]
            ELSE storageMatchLoop(disposed, names, i + 1, request, options)

\* CacheStorage.match(request, options)
StorageMatch(request, options) ==
    /\ storageCall.pc = "idle"
    /\ Len(cachesCreated) < MaxOpens
    /\ \E names \in {storageKeys(backendState, openedCaches)} :
       \E r \in {storageMatchLoop([backendState EXCEPT
                                      !.timers = persistenceDispose(@)],
                                  names, 1, request, options)} :
          /\ storage' = r.st.storage
          /\ indexes' = r.st.indexes
          /\ timers' = r.st.timers
          /\ cachesCreated' = newCaches(cachesCreated, names, 1, r.visited)
          /\ openedCaches' =
                LET missing(name) == name \notin Range(openedCaches)
                IN openedCaches
                      \o SelectSeq(SubSeq(names, 1, r.visited), missing)
          /\ storageCall' =
                [storageCall EXCEPT
                    !.matched = [outcome |-> IF r.threw THEN "rejected"
                                             ELSE "resolved",
                                 response |-> r.ret]]
    /\ UNCHANGED <<indexExpires, dbPool, versionstamps, transactions, backend, keysLimit, normalizer, now, counter, nextId,
                   batchOperations, batchProcessing, current, calls,
                   disposeState, disposePending, failures>>

\* put(request, response) on a Cache that open(name) has returned and whose
\* queue is empty, awaited: the response that matches the request is
\* deleted and the new one is stored
PutIn(name, request, response) ==
    /\ \E i \in DOMAIN cachesCreated : cachesCreated[i].name = name
    /\ nextId < MaxCalls
    /\ putIsValid(request, response)
    /\ \E m \in {matchMax(backendState, name, 1, request, DefaultOptions)} :
       \E st \in {IF m.out # <<>>
                   THEN persistenceDelete(m.st, name, request,
                                          m.out[1].id).st
                   ELSE m.st} :
       \E r \in {persistencePut(st, name, request, response, nextId)} :
          /\ ~m.threw
          /\ storage' = r.st.storage
          /\ indexes' = r.st.indexes
          /\ timers' = r.st.timers
          /\ nextId' = IF r.ret THEN nextId + 1 ELSE nextId
          /\ counter' = IF r.ret THEN countersAfterCreated ELSE counter
    /\ UNCHANGED <<indexExpires, dbPool, versionstamps, transactions, backend, keysLimit, normalizer, openedCaches,
                   cachesCreated, storageCall, now, batchOperations,
                   batchProcessing, current, calls, disposeState,
                   disposePending, failures>>

\* ------------------------------------------------- the specifications
\* the request that the queue runs put and delete
TheRequest == [scheme |-> "http:", path |-> "/hello", search |-> "",
               hash |-> "", method |-> "GET", header |-> "gzip",
               userAgent |-> "null"]

\* a response that Cache.put accepts and that does not expire
TheResponse == [status |-> 200, vary |-> "", maxAge |-> -1,
                bodyUsed |-> FALSE, sMaxAge |-> -1, age |-> -1, date |-> -1,
                expires |-> -1]

\* the pairs that fail exactly one check of Cache.put: the scheme, the
\* method, the status, the Vary header, the body
InvalidPuts ==
    {<<[TheRequest EXCEPT !.scheme = "data:"], TheResponse>>,
     <<[TheRequest EXCEPT !.method = "POST"], TheResponse>>,
     <<TheRequest, [TheResponse EXCEPT !.status = 206]>>,
     <<TheRequest, [TheResponse EXCEPT !.vary = "*"]>>,
     <<TheRequest, [TheResponse EXCEPT !.bodyUsed = TRUE]>>}

\* Spec: one URL requested with either value of the header that Vary may
\* select, responses without Vary of every max-age and responses with Vary
\* that do not expire, deletes and reads with and without ignoreVary, both
\* backends, time and timers
ContentPuts ==
    {<<[TheRequest EXCEPT !.header = h], [TheResponse EXCEPT !.maxAge = a]>> :
        h \in HeaderValues, a \in MaxAges}
    \cup {<<[TheRequest EXCEPT !.header = h],
            [TheResponse EXCEPT !.vary = "accept-encoding"]>> :
            h \in HeaderValues}
    \cup InvalidPuts

IgnoreVary == [DefaultOptions EXCEPT !.ignoreVary = TRUE]
IgnoreMethod == [DefaultOptions EXCEPT !.ignoreMethod = TRUE]

ContentQueries ==
    {<<[TheRequest EXCEPT !.header = h], o>> :
        h \in HeaderValues, o \in {DefaultOptions, IgnoreVary}}
    \cup {<<[TheRequest EXCEPT !.method = "POST"], o>> :
            o \in {DefaultOptions, IgnoreMethod}}

ContentReads ==
    {<<[TheRequest EXCEPT !.header = h], DefaultOptions, 1>> :
        h \in HeaderValues}
    \cup {<<TheRequest, IgnoreVary, Infinity>>,
          <<Null, DefaultOptions, Infinity>>}

Next ==
    \/ \E input \in ContentPuts : Put(input[1], input[2])
    \/ \E input \in ContentQueries : Delete(input[1], input[2])
    \/ ExecPutMatch
    \/ ExecPutStore
    \/ ExecDelete
    \/ \E input \in ContentReads : Read(input[1], input[2], input[3])
    \/ \E key \in DOMAIN timers : TimerFires(key)
    \/ Tick

Spec == Init /\ [][Next]_vars

\* QueueSpec: puts and deletes of one request, issued without waiting for
\* one another, persistence calls that fail, and the disposal of the Cache
QueuePuts ==
    {<<TheRequest, [TheResponse EXCEPT !.maxAge = a]>> : a \in {-1, 0}}
    \cup InvalidPuts

QueueQueries ==
    {<<[TheRequest EXCEPT !.method = m], DefaultOptions>> : m \in Methods}

QueueNext ==
    \/ \E input \in QueuePuts : Put(input[1], input[2])
    \/ \E input \in QueueQueries : Delete(input[1], input[2])
    \/ ExecPutMatch
    \/ ExecPutStore
    \/ ExecDelete
    \/ ExecFail
    \/ Dispose
    \/ Read(TheRequest, DefaultOptions, Infinity)

QueueSpec == Init /\ [][QueueNext]_vars

\* FairQueueSpec: puts and deletes of one request and persistence calls
\* that fail.  The event loop runs the continuation of every await, so a
\* step of execute() that can be taken is taken (or the call fails)
FairQueueNext ==
    \/ \E a \in {-1, 0} : Put(TheRequest, [TheResponse EXCEPT !.maxAge = a])
    \/ Delete(TheRequest, DefaultOptions)
    \/ ExecPutMatch
    \/ ExecPutStore
    \/ ExecDelete
    \/ ExecFail

FairQueueSpec ==
    /\ Init
    /\ [][FairQueueNext]_vars
    /\ WF_vars(ExecPutMatch)
    /\ WF_vars(ExecPutStore)
    /\ WF_vars(ExecDelete)

\* UrlSpec: requests of one path that differ in the query string, in the
\* fragment and in the header that Vary selects, responses with and without
\* Vary that do not expire, deletes of the request without query string
\* with and without ignoreSearch and ignoreVary, both backends
UrlRequests ==
    {[TheRequest EXCEPT !.search = x[1], !.hash = x[2], !.header = x[3]] :
        x \in {<<"", "", "gzip">>, <<"?a=1", "", "gzip">>,
                <<"", "#f", "gzip">>, <<"", "", "br">>}}

UrlResponses == {TheResponse, [TheResponse EXCEPT !.vary = "accept-encoding"]}

IgnoreSearch == [DefaultOptions EXCEPT !.ignoreSearch = TRUE]

UrlOptions == {DefaultOptions, IgnoreSearch, IgnoreVary}

\* the queries: the request without query string, with and without fragment
UrlQueries ==
    {<<[TheRequest EXCEPT !.hash = f], o>> : f \in {"", "#f"}, o \in UrlOptions}

UrlNext ==
    \/ \E request \in UrlRequests, response \in UrlResponses :
          Put(request, response)
    \/ \E input \in UrlQueries : Delete(input[1], input[2])
    \/ ExecPutMatch
    \/ ExecPutStore
    \/ ExecDelete

UrlSpec == Init /\ [][UrlNext]_vars

\* VarySpec: a CacheStorage constructed with either normalizer; requests of
\* one URL that differ in accept-encoding and user-agent; responses whose
\* Vary lists one field, or two fields written without and with a space
\* after the comma; deletes and reads with and without ignoreVary
VaryInit ==
    /\ backend \in Backends
    /\ keysLimit \in IF backend = "redis" THEN KeysLimits
                     ELSE {defaultKeysLimit}
    /\ normalizer \in Normalizers
    /\ now = 0
    /\ storage = Empty
    /\ indexes = Empty
    /\ timers = Empty
    /\ counter = Empty
    /\ nextId = 1
    /\ batchOperations = <<>>
    /\ batchProcessing = FALSE
    /\ current = NoOperation
    /\ calls = <<>>
    /\ disposeState = "none"
    /\ disposePending = {}
    /\ failures = 0
    /\ openedCaches = <<cacheName>>
    /\ cachesCreated = <<newCache(<<>>, cacheName)>>
    /\ storageCall = NoStorageCall
    /\ dbPool = [w \in Writers |-> 0]
    /\ versionstamps = <<>>
    /\ indexExpires = Empty
    /\ transactions = [w \in Writers |-> NoTransaction]

VaryRequests ==
    {[TheRequest EXCEPT !.header = x[1], !.userAgent = x[2]] :
        x \in {<<"gzip", "chrome">>, <<"gzip", "safari">>,
                <<"br", "chrome">>}}

VaryResponses ==
    {[TheResponse EXCEPT !.vary = v] :
        v \in {"accept-encoding", "accept-encoding,user-agent",
                "accept-encoding, user-agent"}}

VaryOptions == {DefaultOptions, IgnoreVary}

VaryNext ==
    \/ \E request \in VaryRequests, response \in VaryResponses :
          Put(request, response)
    \/ \E request \in VaryRequests, options \in VaryOptions :
          Delete(request, options)
    \/ ExecPutMatch
    \/ ExecPutStore
    \/ ExecDelete
    \/ \E request \in VaryRequests, options \in VaryOptions :
          Read(request, options, Infinity)

VarySpec == VaryInit /\ [][VaryNext]_vars

\* ---------------------------------------------------------- the claims
\* what match (max = 1), matchAll and keys (max = Infinity) return now
readOut(request, options, max) ==
    matchMax(backendState, cacheName, max, request, options).out

\* what they return in the state that a step of a put or a delete leads to
\* (such a step leaves the backend, its keysLimit and the time as they are)
readOutAfter(request, options, max) ==
    matchMax([storage |-> storage', indexes |-> indexes',
              timers |-> timers'], cacheName, max, request, options).out

\* the reads of the one URL: with and without a request, with and without
\* ignoreVary, of the first match and of all
ReadQueries ==
    {<<[TheRequest EXCEPT !.header = h], o, m>> :
        h \in HeaderValues, o \in {DefaultOptions, IgnoreVary},
        m \in {1, Infinity}}
    \cup {<<Null, DefaultOptions, m>> : m \in {1, Infinity}}

\* the stored records of a request that have not expired
liveRecordsFor(s, request) ==
    {s[k] : k \in {x \in DOMAIN s : /\ plainToRequest(s[x]) = request
                                    /\ ~hasExpired(s[x])}}

started(c) == c.phase \in {"running", "done", "failed"}
finished(c) == c.phase \in {"done", "failed"}
drained == ~batchProcessing /\ batchOperations = <<>> /\ current = NoOperation

\* C1: no read (match, matchAll with or without a request, keys, get, full
\* iteration) returns a record whose expires time is less than or equal to
\* the current time
C1_NoExpiredRecordReturned ==
    \A x \in ReadQueries :
        \A i \in DOMAIN readOut(x[1], x[2], x[3]) :
            readOut(x[1], x[2], x[3])[i].expires > now

\* C2: while the record stored by the most recent put is stored and has not
\* expired, match of its request returns it, whatever else the cache holds
C2_MatchReturnsLastPut ==
    \A k \in DOMAIN storage :
        (storage[k].id = nextId - 1 /\ storage[k].expires > now)
            => readOut(plainToRequest(storage[k]), DefaultOptions, 1)
                 = <<storage[k]>>

\* C3: when a put of a response that has not already expired resolves and
\* no other call is pending, exactly one response is stored for its request
\* and it is the response of that put
C3_OneResponsePerRequest ==
    [][(/\ ExecPutStore
        /\ batchOperations = <<>>
        /\ expiresIn(current.op.response) > 0)
          => /\ Cardinality(liveRecordsFor(storage', current.op.request)) = 1
             /\ \A r \in liveRecordsFor(storage', current.op.request) :
                    r.resBody = current.op.call]_vars

\* C4: operations are executed one at a time and in call order: an
\* operation is started only when every operation enqueued before it has
\* finished, at most one is running, and the queue holds the calls not yet
\* started in call order
C4_OneAtATimeInCallOrder ==
    /\ \A k \in DOMAIN calls :
          started(calls[k])
             => \A j \in 1..(k - 1) :
                    calls[j].phase \notin {"queued", "running"}
    /\ Cardinality({k \in DOMAIN calls : calls[k].phase = "running"}) <= 1
    /\ \A k \in DOMAIN calls :
          calls[k].phase = "running"
             <=> (current # NoOperation /\ current.op.call = k)
    /\ \A i \in DOMAIN batchOperations :
          /\ calls[batchOperations[i].call].phase = "queued"
          /\ i > 1 => batchOperations[i - 1].call < batchOperations[i].call

C4_Witness ==
    /\ Len(calls) = 3
    /\ calls[1].phase = "done"
    /\ calls[2].phase = "running"
    /\ calls[3].phase = "queued"

\* C5: when dispose has released the persistence, every call that was
\* queued or running at the dispose call has finished, and the record of a
\* put among them is stored unless a later call was executed
C5_DisposeDrainsQueueFirst ==
    disposeState = "done"
       => /\ drained
          /\ \A k \in disposePending :
                /\ finished(calls[k])
                /\ (/\ calls[k] = [kind |-> "put", phase |-> "done",
                                   result |-> "true"]
                    /\ \A j \in (k + 1)..Len(calls) : ~started(calls[j]))
                      => \E key \in DOMAIN storage : storage[key].resBody = k

C5_Witness ==
    /\ disposeState = "done"
    /\ Cardinality(disposePending) >= 2
    /\ \E k \in disposePending :
          /\ calls[k] = [kind |-> "put", phase |-> "done", result |-> "true"]
          /\ \E key \in DOMAIN storage : storage[key].resBody = k

\* C6: the promise of a put or delete whose persistence call failed is
\* rejected
C6_FailureRejectsThePromise ==
    \A k \in DOMAIN calls :
        calls[k].phase = "failed" => promiseOf(calls[k]) = "rejected"

C8_InvalidPutHasNoEffect ==
    [][\A input \in InvalidPuts :
          Put(input[1], input[2])
             => /\ Len(calls') = Len(calls) + 1
                /\ promiseOf(calls'[Len(calls')]) = "rejected"
                /\ UNCHANGED <<batchOperations, batchProcessing, current,
                               storage, indexes, timers>>
                /\ \A x \in ReadQueries :
                      readOutAfter(x[1], x[2], x[3])
                         = readOut(x[1], x[2], x[3])
      ]_vars

C8_Witness ==
    /\ storage # Empty
    /\ \E k \in DOMAIN calls : calls[k].phase = "rejected"

\* C9 as stated: after the put of a response whose TTL is 0 or less a match
\* for that request finds nothing
C9_MatchFindsNothingAfterExpiredPut ==
    [][(ExecPutStore /\ expiresIn(current.op.response) <= 0)
          => readOutAfter(current.op.request, DefaultOptions, 1) = <<>>]_vars

\* C9 amended: the persistence put of a response whose TTL is 0 or less
\* returns false and leaves records and indexes as they are, Cache.put
\* resolves, and a following match for that request returns what it
\* returned before the persistence put, never the response of that put
C9_ExpiredPutStoresNothing ==
    [][(ExecPutStore /\ expiresIn(current.op.response) <= 0)
          => /\ ~persistencePut(backendState, cacheName, current.op.request,
                                current.op.response, current.op.call).ret
             /\ storage' = storage
             /\ indexes' = indexes
             /\ calls'[current.op.call]
                  = [kind |-> "put", phase |-> "done", result |-> "false"]
             /\ promiseOf(calls'[current.op.call]) = "resolved"
             /\ readOutAfter(current.op.request, DefaultOptions, 1)
                  = readOut(current.op.request, DefaultOptions, 1)
             /\ \A key \in DOMAIN storage' :
                   storage'[key].resBody # current.op.call]_vars

C9_Witness ==
    /\ \E k \in DOMAIN calls :
          calls[k] = [kind |-> "put", phase |-> "done", result |-> "false"]
    /\ readOut(TheRequest, DefaultOptions, 1) # <<>>

\* C10: right after a delete has resolved, matchAll with its request and
\* options is empty
C10_DeleteRemovesEveryMatch ==
    [][ExecDelete
          => readOutAfter(current.op.request, current.op.options, Infinity)
               = <<>>]_vars

\* the stored records that a query matches and that have not expired
liveMatches(request, options) ==
    {k \in DOMAIN storage :
        /\ ~hasExpired(storage[k])
        /\ requestMatchesCachedItem(request, storage[k], options) = "true"}

C12_DeleteKeepsNonMatching ==
    [][ExecDelete
          => \A k \in DOMAIN storage :
                (\/ /\ ~current.op.options.ignoreSearch
                    /\ storage[k].reqUrl.search # current.op.request.search
                 \/ /\ ~current.op.options.ignoreVary
                    /\ storage[k].resVary = "accept-encoding"
                    /\ storage[k].reqHeader # current.op.request.header)
                  => /\ k \in DOMAIN storage'
                     /\ storage'[k] = storage[k]
                     /\ \E i \in DOMAIN readOutAfter(
                                     plainToRequest(storage[k]),
                                     DefaultOptions, Infinity) :
                           readOutAfter(plainToRequest(storage[k]),
                                        DefaultOptions, Infinity)[i]
                              = storage[k]
      ]_vars

C12_Witness ==
    /\ Len(calls) = 3
    /\ calls[1] = [kind |-> "put", phase |-> "done", result |-> "true"]
    /\ calls[2] = [kind |-> "put", phase |-> "done", result |-> "true"]
    /\ calls[3] = [kind |-> "delete", phase |-> "done", result |-> "true"]
    /\ backend = "memory"
    /\ \E k \in DOMAIN storage : storage[k].reqUrl.search = "?a=1"

\* whether a stored record differs from a request in the query string, or
\* has Vary: accept-encoding and was stored for another accept-encoding
differsFrom(item, request) ==
    \/ item.reqUrl.search # request.search
    \/ item.resVary = "accept-encoding" /\ item.reqHeader # request.header

\* C13: the replace step of a put removes at most one stored record, and
\* only one with the request's query string whose Vary-selected header, if
\* any, is the request's; the store step removes none.  The records that
\* differ from the request in the query string or in the Vary-selected
\* header are returned by matchAll of their own request after each step
C13_PutRemovesAtMostOneMatch ==
    [][(ExecPutMatch \/ ExecPutStore)
          => /\ Cardinality(DOMAIN storage \ DOMAIN storage') <= 1
             /\ ExecPutStore => DOMAIN storage \subseteq DOMAIN storage'
             /\ \A k \in DOMAIN storage :
                   differsFrom(storage[k], current.op.request)
                      => /\ k \in DOMAIN storage'
                         /\ storage'[k] = storage[k]
                         /\ \E i \in DOMAIN readOutAfter(
                                         plainToRequest(storage[k]),
                                         DefaultOptions, Infinity) :
                               readOutAfter(plainToRequest(storage[k]),
                                            DefaultOptions, Infinity)[i]
                                  = storage[k]
      ]_vars

\* two responses with Vary stored for the two values of the header, after a
\* put that did replace a record
C13_Witness ==
    /\ Len(calls) = 3
    /\ \A i \in 1..3 :
          calls[i] = [kind |-> "put", phase |-> "done", result |-> "true"]
    /\ Cardinality(DOMAIN storage) = 2
    /\ \A h \in HeaderValues :
          \E k \in DOMAIN storage :
             /\ storage[k].resVary = "accept-encoding"
             /\ storage[k].reqHeader = h

\* the deletes of a request that is not GET, without ignoreMethod
NonGetDeletes ==
    {<<[TheRequest EXCEPT !.method = "POST", !.header = h], o>> :
        h \in HeaderValues, o \in {DefaultOptions, IgnoreVary, IgnoreSearch}}

\* C14: a delete of a request whose method is not GET, without
\* ignoreMethod, returns false at once: its promise is resolved with false,
\* nothing is enqueued, no operation is started, and records, indexes and
\* timers are unchanged
C14_NonGetDeleteReturnsFalse ==
    [][\A input \in NonGetDeletes :
          Delete(input[1], input[2])
             => /\ calls' = Append(calls, [kind |-> "delete",
                                           phase |-> "returned",
                                           result |-> "false"])
                /\ promiseOf(calls'[Len(calls')]) = "resolved"
                /\ UNCHANGED <<batchOperations, batchProcessing, current,
                               storage, indexes, timers, counter, nextId>>
      ]_vars

C14_Witness ==
    /\ storage # Empty
    /\ \E k \in DOMAIN calls :
          calls[k] = [kind |-> "delete", phase |-> "returned",
                      result |-> "false"]

\* the delete loop of Cache.delete run on the current state
deleteOut(request, options) ==
    getLoop(backendState, cacheName, 0,
            firstPage(backendState, cacheName, request), "delete",
            request, options, Infinity, [out |-> <<>>, hasDeleted |-> FALSE])

\* C15: in every state, a request with a fragment has the index key of the
\* same request without it, and put (its checks, its replace step read and
\* the record it stores), match, matchAll and delete (what they return and
\* the state they leave) are the same for both
C15_FragmentIsIrrelevant ==
    \A request \in {TheRequest} :
        \A withHash \in {[request EXCEPT !.hash = "#f"]} :
            /\ requestKey(cacheName, withHash) = requestKey(cacheName, request)
            /\ \A options \in UrlOptions :
                  /\ \A max \in {1, Infinity} :
                        matchMax(backendState, cacheName, max, withHash,
                                 options)
                           = matchMax(backendState, cacheName, max, request,
                                      options)
                  /\ deleteOut(withHash, options) = deleteOut(request, options)
            /\ \A response \in UrlResponses :
                  /\ putIsValid(withHash, response)
                        = putIsValid(request, response)
                  /\ persistencePut(backendState, cacheName, withHash,
                                    response, 0)
                        = persistencePut(backendState, cacheName, request,
                                         response, 0)

\* a delete of a request with a fragment is running and finds a record
C15_Witness ==
    /\ current # NoOperation
    /\ current.op.kind = "delete"
    /\ current.op.request.hash = "#f"
    /\ calls[1] = [kind |-> "put", phase |-> "done", result |-> "true"]
    /\ deleteOut(current.op.request, current.op.options).hasDeleted

\* whether matchAll(request, options) returns the stored record
returns(request, options, item) ==
    \E i \in DOMAIN readOut(request, options, Infinity) :
        readOut(request, options, Infinity)[i] = item

\* the two queries of the one path: without and with a query string
SearchQueries == {[TheRequest EXCEPT !.search = x] : x \in {"", "?a=1"}}

\* C16: every stored record has the index key of a query of its path
\* whatever the query strings; a stored record that differs from the query
\* in the query string alone (no Vary-selected header differs) is returned
\* by matchAll if and only if ignoreSearch is set; and with ignoreSearch
\* and ignoreVary matchAll returns every stored record of the path
C16_SearchMatchesOnlyWithIgnoreSearch ==
    \A request \in SearchQueries :
        \A k \in DOMAIN storage :
            /\ indexKey(k) = requestKey(cacheName, request)
            /\ (/\ storage[k].reqUrl.search # request.search
                /\ \/ storage[k].resVary = ""
                   \/ storage[k].reqHeader = request.header)
                  => /\ returns(request, IgnoreSearch, storage[k])
                     /\ ~returns(request, DefaultOptions, storage[k])
                     /\ ~returns(request, IgnoreVary, storage[k])
            /\ returns(request, [IgnoreSearch EXCEPT !.ignoreVary = TRUE],
                       storage[k])

C16_Witness ==
    /\ \E k \in DOMAIN storage : storage[k].reqUrl.search = ""
    /\ \E k \in DOMAIN storage :
          storage[k].reqUrl.search = "?a=1" /\ storage[k].resVary = ""
    /\ Len(readOut(TheRequest, IgnoreSearch, Infinity)) >= 2
    /\ Len(readOut(TheRequest, DefaultOptions, Infinity)) = 1

\* whether match/matchAll(request, options) rejects with a TypeError
readThrows(request, options) ==
    matchMax(backendState, cacheName, Infinity, request, options).threw

\* the header names that a Vary header lists
listedFields(vary) == {trim(varyFields(vary)[i]) : i \in DOMAIN varyFields(vary)}

\* whether the normalizer maps the values that the stored request and the
\* query have for every field listed in Vary to the same result
sameBuckets(item, request) ==
    \A field \in listedFields(item.resVary) :
        headerNormalizer(field, headersGet(headersOfItem(item), field))
           = headerNormalizer(field, headersGet(headersOf(request), field))

\* C17: a stored response with a Vary header is returned by matchAll of a
\* query with its URL if and only if ignoreVary is set or the normalizer
\* maps the stored request's value and the query's value of every field
\* listed in Vary to the same result
C17_VaryMatchesBySameBuckets ==
    \A request \in VaryRequests, options \in VaryOptions :
        \A k \in DOMAIN storage :
            storage[k].resVary # ""
               => (returns(request, options, storage[k])
                     <=> (options.ignoreVary \/ sameBuckets(storage[k], request)))

\* the options under which matchAll returns all that persistence get yields
IgnoreSearchAndVary == [IgnoreSearch EXCEPT !.ignoreVary = TRUE]

\* C18: in what matchAll of a request returns, under any options, a record
\* stored later precedes a record stored earlier
C18_MatchAllNewestFirst ==
    \A options \in UrlOptions \cup {IgnoreSearchAndVary} :
        \A i, j \in DOMAIN readOut(TheRequest, options, Infinity) :
            i < j => readOut(TheRequest, options, Infinity)[i].id
                        > readOut(TheRequest, options, Infinity)[j].id

\* C19: in what keys() and matchAll() without a request return, a record
\* stored earlier precedes a record stored later
C19_KeysInInsertionOrder ==
    \A i, j \in DOMAIN readOut(Null, DefaultOptions, Infinity) :
        i < j => readOut(Null, DefaultOptions, Infinity)[i].id
                    < readOut(Null, DefaultOptions, Infinity)[j].id

\* StorageSpec: a CacheStorage over the shared persistence.  Responses
\* with and without a max-age of one second are put under one URL with
\* two query strings, time passes, timers fire at their due time or
\* later, and whole caches are deleted while no put is in progress
StoragePuts ==
    {<<[TheRequest EXCEPT !.search = x], [TheResponse EXCEPT !.maxAge = a]>> :
        x \in {"", "?a=1"}, a \in {-1, 1}}

StorageNext ==
    \/ \E name \in CacheNames : name \notin Range(openedCaches) /\ Open(name)
    \/ \E input \in StoragePuts :
          storageCall.pc = "idle" /\ Put(input[1], input[2])
    \/ ExecPutMatch
    \/ ExecPutStore
    \/ \E name \in CacheNames : drained /\ StorageDeleteStart(name)
    \/ StorageDeleteOne
    \/ StorageDeleteReturn
    \/ \E key \in DOMAIN timers : TimerFires(key)
    \/ Tick

StorageSpec == Init /\ [][StorageNext]_vars

\* the persistence as the step leaves it
stateAfter == [storage |-> storage', indexes |-> indexes', timers |-> timers']

\* C20: when CacheStorage.delete(name) resolves with true, no record is
\* stored under name, matchAll() on a cache of that name is empty, and
\* name is not in CacheStorage.keys(): has(name) is false and a second
\* delete(name) returns false
C20_DeleteEmptiesTheCache ==
    [][StorageDeleteReturn
          => /\ \A k \in DOMAIN storage' : k[2] # storageCall.name
             /\ matchMax(stateAfter, storageCall.name, Infinity, Null,
                         DefaultOptions).out = <<>>
             /\ ~has(stateAfter, openedCaches', storageCall.name)]_vars

\* RegistrySpec: the caches of a CacheStorage are opened again and again,
\* filled through the Cache objects that open has returned, searched and
\* deleted, while time passes
RegistryPuts ==
    {<<TheRequest, [TheResponse EXCEPT !.maxAge = 1]>>,
     <<[TheRequest EXCEPT !.search = "?a=1"], TheResponse>>}

RegistryQueries ==
    {<<TheRequest, DefaultOptions>>, <<TheRequest, IgnoreSearch>>}

RegistryNext ==
    \/ \E name \in CacheNames : Open(name)
    \/ \E name \in CacheNames, input \in RegistryPuts :
          storageCall.pc = "idle" /\ PutIn(name, input[1], input[2])
    \/ \E input \in RegistryQueries : StorageMatch(input[1], input[2])
    \/ \E name \in CacheNames : StorageDeleteStart(name)
    \/ StorageDeleteOne
    \/ StorageDeleteReturn
    \/ \E key \in DOMAIN timers : TimerFires(key)
    \/ Tick

RegistrySpec == Init /\ [][RegistryNext]_vars

\* the Cache object that the latest open of name has returned
RECURSIVE latestCache(_, _, _)
latestCache(objects, name, i) ==
    IF objects[i].name = name THEN objects[i]
    ELSE latestCache(objects, name, i - 1)

\* C21: an open of a name that is open in this CacheStorage returns the
\* Cache object, with the persistence, that the latest open of the name
\* returned
C21_OpenIsIdempotent ==
    [][\A name \in CacheNames :
          Open(name) /\ name \in Range(openedCaches)
             => cachesCreated'[Len(cachesCreated')]
                   = latestCache(cachesCreated, name, Len(cachesCreated))]_vars

\* the cache names under which the persistence holds a record
namesHoldingRecords == {k[2] : k \in DOMAIN storage}

cacheMatch(name, request, options) ==
    matchMax(backendState, name, 1, request, options).out

\* the response of the first cache, in the order of keys(), that has one
firstHit(request, options) ==
    LET keys == storageKeys(backendState, openedCaches)
        hits == {i \in DOMAIN keys :
                    cacheMatch(keys[i], request, options) # <<>>}
    IN IF hits = {} THEN Null
       ELSE cacheMatch(keys[CHOOSE i \in hits : \A j \in hits : i <= j],
                       request, options)[1]

\* C23: CacheStorage.match resolves with what Cache.match returns for the
\* first cache, in the order of CacheStorage.keys(), that has a match, and
\* with undefined when no cache has one
C23_MatchReturnsFirstHit ==
    [][\A input \in RegistryQueries :
          StorageMatch(input[1], input[2])
             => storageCall'.matched =
                   [outcome |-> "resolved",
                    response |-> firstHit(input[1], input[2])]]_vars

\* a match has returned a response of the cache that comes first in keys()
\* while the cache that comes second holds a response for the request too
C23_Witness ==
    /\ storageCall.matched.outcome = "resolved"
    /\ \E k \in DOMAIN storage :
          k[2] = cacheName /\ storage[k] = storageCall.matched.response
    /\ \E k \in DOMAIN storage :
          /\ k[2] = <<"v">>
          /\ storage[k].reqUrl = storageCall.matched.response.reqUrl

\* PersistenceSpec: put and delete called on the persistence itself, for
\* the three backends, with records under two URLs, one of them with two
\* query strings; time passes and expired blobs leave Deno KV and Redis
PersistenceBackends == Backends \cup {"denokv"}

PersistenceInit ==
    /\ backend \in PersistenceBackends
    /\ keysLimit \in IF backend = "redis" THEN KeysLimits
                     ELSE {defaultKeysLimit}
    /\ normalizer = "default"
    /\ now = 0
    /\ storage = Empty
    /\ indexes = Empty
    /\ timers = Empty
    /\ counter = Empty
    /\ nextId = 1
    /\ batchOperations = <<>>
    /\ batchProcessing = FALSE
    /\ current = NoOperation
    /\ calls = <<>>
    /\ disposeState = "none"
    /\ disposePending = {}
    /\ failures = 0
    /\ openedCaches = <<cacheName>>
    /\ cachesCreated = <<newCache(<<>>, cacheName)>>
    /\ storageCall = NoStorageCall
    /\ dbPool = [w \in Writers |-> 0]
    /\ versionstamps = <<>>
    /\ indexExpires = Empty
    /\ transactions = [w \in Writers |-> NoTransaction]

PersistenceRequests ==
    {TheRequest, [TheRequest EXCEPT !.search = "?a=1"],
     [TheRequest EXCEPT !.path = "/bye"]}

\* the requests of the deletes: the key of a request has no query string
PersistenceQueries == {TheRequest, [TheRequest EXCEPT !.path = "/bye"]}

PersistenceResponses == {[TheResponse EXCEPT !.maxAge = a] : a \in {-1, 1}}

\* the ids that the x-cachestorage-id header of a response may carry
StoredIds == 1..MaxCalls

\* persistence.put(cacheName, request, response)
PersistPut(request, response) ==
    /\ nextId <= MaxCalls
    /\ \E r \in {persistencePut(backendState, cacheName, request, response,
                                 nextId)} :
          /\ storage' = r.st.storage
          /\ indexes' = r.st.indexes
          /\ timers' = r.st.timers
          /\ nextId' = IF r.ret THEN nextId + 1 ELSE nextId
          /\ counter' = IF r.ret THEN countersAfterCreated ELSE counter
    /\ UNCHANGED <<indexExpires, dbPool, versionstamps, transactions, backend, keysLimit, normalizer, openedCaches,
                   cachesCreated, storageCall, now, batchOperations,
                   batchProcessing, current, calls, disposeState,
                   disposePending, failures>>

\* the call is kept with the boolean it resolved with
persistenceCall(kind, ret) ==
    [kind |-> kind, phase |-> "done",
     result |-> IF ret THEN "true" ELSE "false"]

\* persistence.delete(cacheName, request)
PersistDelete(request) ==
    /\ Len(calls) < MaxPersistenceCalls
    /\ \E r \in {persistenceDeleteRequest(backendState, cacheName, request)} :
          /\ storage' = r.st.storage
          /\ indexes' = r.st.indexes
          /\ timers' = r.st.timers
          /\ calls' = Append(calls, persistenceCall("delete(request)",
                                                    r.ret))
    /\ UNCHANGED <<indexExpires, dbPool, versionstamps, transactions, backend, keysLimit, normalizer, openedCaches,
                   cachesCreated, storageCall, now, counter, nextId,
                   batchOperations, batchProcessing, current, disposeState,
                   disposePending, failures>>

\* persistence.delete(cacheName, request, response), the response being one
\* that the cache returned, whose x-cachestorage-id header is id
PersistDeleteResponse(request, id) ==
    /\ Len(calls) < MaxPersistenceCalls
    /\ \E r \in {persistenceDelete(backendState, cacheName, request, id)} :
          /\ storage' = r.st.storage
          /\ indexes' = r.st.indexes
          /\ timers' = r.st.timers
          /\ calls' = Append(calls,
                             persistenceCall("delete(request, response)",
                                             r.ret))
    /\ UNCHANGED <<indexExpires, dbPool, versionstamps, transactions, backend, keysLimit, normalizer, openedCaches,
                   cachesCreated, storageCall, now, counter, nextId,
                   batchOperations, batchProcessing, current, disposeState,
                   disposePending, failures>>

\* Deno KV drops a blob whose expireIn has elapsed, at some later time
BlobExpires(key) ==
    /\ backend = "denokv"
    /\ key \in DOMAIN storage
    /\ storage[key].expires <= now
    /\ storage' = Remove(storage, key)
    /\ UNCHANGED <<indexExpires, dbPool, versionstamps, transactions, backend, keysLimit, normalizer, openedCaches,
                   cachesCreated, storageCall, now, indexes, timers,
                   counter, nextId, batchOperations, batchProcessing,
                   current, calls, disposeState, disposePending, failures>>

PersistenceNext ==
    \/ \E request \in PersistenceRequests, response \in PersistenceResponses :
          PersistPut(request, response)
    \/ \E request \in PersistenceQueries : PersistDelete(request)
    \/ \E request \in PersistenceQueries, id \in StoredIds :
          PersistDeleteResponse(request, id)
    \/ \E key \in DOMAIN timers : TimerFires(key)
    \/ \E key \in DOMAIN storage : BlobExpires(key)
    \/ Tick

PersistenceSpec == PersistenceInit /\ [][PersistenceNext]_vars

\* the records of a persistence state that are stored now, unchanged
recordsKept(st) ==
    /\ DOMAIN st.storage \subseteq DOMAIN storage
    /\ \A k \in DOMAIN st.storage : st.storage[k] = storage[k]

\* C24: a persistence delete without a response removes the records whose
\* key lies in the index of the request and leaves all others as they
\* are; with a response it removes the record whose key ends in the id of
\* the response, if it is stored, and leaves all others as they are
C24_DeleteRemovesIndexOrOneRecord ==
    /\ \A request \in PersistenceQueries :
          LET after == persistenceDeleteRequest(backendState, cacheName,
                                                request).st
          IN /\ DOMAIN after.storage
                  = {k \in DOMAIN storage :
                        indexKey(k) # requestKey(cacheName, request)}
             /\ recordsKept(after)
    /\ \A request \in PersistenceQueries, id \in StoredIds :
          LET after == persistenceDelete(backendState, cacheName, request,
                                         id).st
          IN /\ DOMAIN after.storage
                  = DOMAIN storage \ {persistenceKey(cacheName, request, id)}
             /\ recordsKept(after)

\* a delete with a response has removed one of the two records of an index,
\* and a delete without a response has then removed the other record of
\* that index while a record of another index stays
C24_Witness ==
    /\ Len(calls) = 2
    /\ calls[1] = persistenceCall("delete(request, response)", TRUE)
    /\ calls[2] = persistenceCall("delete(request)", TRUE)
    /\ backend = "memory"
    /\ nextId = 4
    /\ DOMAIN storage = {persistenceKey(cacheName,
                                        [TheRequest EXCEPT !.path = "/bye"],
                                        3)}

\* a persistence delete has returned true exactly when it removed a record
reportsRemoval(r) == r.ret <=> DOMAIN r.st.storage # DOMAIN storage

\* C25: in each of the three backends a persistence delete, without or
\* with a response, returns true if it removes at least one stored record
\* and false if it removes none
C25_DeleteReturnsWhetherItRemoved ==
    /\ \A request \in PersistenceQueries :
          reportsRemoval(persistenceDeleteRequest(backendState, cacheName,
                                                  request))
    /\ \A request \in PersistenceQueries, id \in StoredIds :
          reportsRemoval(persistenceDelete(backendState, cacheName, request,
                                           id))


\* TtlSpec: responses with every combination of s-maxage, max-age, Age, Date
\* and Expires are put on the memory and Redis persistences while time
\* passes.  A header that is absent is -1; times and ages are in seconds
BeyondCeiling == maxExpireIn + 1

TtlSMaxAges == {-1, 1, BeyondCeiling}

\* 0: already expired; 2: more and less than the ages below
TtlMaxAges == {-1, 0, 2, BeyondCeiling}

TtlAges == {-1, 1, 3}

\* the Date of a response: absent, the start of the run, in the future
TtlDates == {-1, 0, MaxTime + 1}

\* the Expires of a response: absent, one second after the start of the run,
\* further away than the ceiling at any time of the run
TtlExpires == {-1, 1, MaxTime + BeyondCeiling}

TtlResponses ==
    {[TheResponse EXCEPT !.sMaxAge = s, !.maxAge = m, !.age = a, !.date = d,
                         !.expires = e] :
        s \in TtlSMaxAges, m \in TtlMaxAges, a \in TtlAges, d \in TtlDates,
        e \in TtlExpires}

\* the responses that are put: s-maxage next to a larger max-age; max-age 2
\* with every Age, without a Date or with the Date of the start of the run;
\* neither of the two; each of them with every Expires
TtlPuts ==
    {r \in TtlResponses :
        \/ r.sMaxAge = 1 /\ r.maxAge = BeyondCeiling /\ r.age = -1
                                                     /\ r.date = -1
        \/ r.sMaxAge = -1 /\ r.maxAge = 2 /\ r.date \in {-1, 0}
        \/ r.sMaxAge = -1 /\ r.maxAge = -1 /\ r.age = -1 /\ r.date = -1}

TtlInit == PersistenceInit /\ backend \in Backends

\* persistence.put(cacheName, request, response); the latest put is kept
\* with the response it was given, the id of its record and its result
TtlPut(response) ==
    /\ nextId <= MaxCalls
    /\ \E r \in {persistencePut(backendState, cacheName, TheRequest, response,
                                 nextId)} :
          /\ storage' = r.st.storage
          /\ indexes' = r.st.indexes
          /\ timers' = r.st.timers
          /\ nextId' = IF r.ret THEN nextId + 1 ELSE nextId
          /\ counter' = IF r.ret THEN countersAfterCreated ELSE counter
          /\ calls' = <<[kind |-> "put", phase |-> "done",
                         result |-> IF r.ret THEN "true" ELSE "false",
                         response |-> response, id |-> nextId, at |-> now]>>
    /\ UNCHANGED <<indexExpires, dbPool, versionstamps, transactions, backend, keysLimit, normalizer, openedCaches,
                   cachesCreated, storageCall, now, batchOperations,
                   batchProcessing, current, disposeState, disposePending,
                   failures>>

TtlNext ==
    \/ \E response \in TtlPuts : TtlPut(response)
    \/ \E key \in DOMAIN timers : TimerFires(key)
    \/ Tick

TtlSpec == TtlInit /\ [][TtlNext]_vars

\* C26: whatever the Cache-Control, Age, Date and Expires headers of the
\* response, _expiresIn returns a value from 0 to the ceiling of 30 days, in
\* the base class of either file
C26_ExpiresInWithinCeiling ==
    \A response \in TtlResponses :
       /\ 0 <= expiresIn(response) /\ expiresIn(response) <= maxExpireIn
       /\ 0 <= baseExpiresIn(response)
       /\ baseExpiresIn(response) <= maxExpireIn


\* the response with max-age in the place of its s-maxage and nothing else
\* that a time to live could come from
maxAgeAlone(response) ==
    [response EXCEPT !.sMaxAge = -1, !.maxAge = response.sMaxAge,
                     !.expires = -1]

\* C27: the time to live comes from s-maxage when Cache-Control has it (it
\* is what max-age of that value alone would give, whatever max-age and
\* Expires say), otherwise from max-age (whatever Expires says), otherwise
\* from Expires (the time left until it, from 0 to the ceiling), and it is
\* the ceiling when the response has none of the three
C27_TtlSourceByPriority ==
    \A response \in TtlResponses :
       /\ response.sMaxAge # -1
             => expiresIn(response) = expiresIn(maxAgeAlone(response))
       /\ response.sMaxAge = -1 /\ response.maxAge # -1
             => expiresIn(response)
                   = expiresIn([response EXCEPT !.expires = -1])
       /\ response.sMaxAge = -1 /\ response.maxAge = -1
             => expiresIn(response)
                   = IF response.expires = -1 THEN maxExpireIn
                     ELSE Min(Max(response.expires - now, 0), maxExpireIn)

\* the response put last had s-maxage=1 next to a max-age and an Expires
\* beyond the ceiling, and its record expires one second after the put
C27_Witness ==
    /\ calls # <<>>
    /\ calls[1].response.sMaxAge = 1
    /\ calls[1].response.maxAge = BeyondCeiling
    /\ calls[1].response.expires = MaxTime + BeyondCeiling
    /\ calls[1].result = "true"
    /\ \E k \in DOMAIN storage :
          k[4] = calls[1].id /\ storage[k].expires = calls[1].at + 1


\* the responses whose time to live comes from max-age
MaxAgeResponses ==
    {r \in TtlResponses : r.sMaxAge = -1 /\ r.maxAge # -1}

\* max(N - max(now - D, A), 0) capped at the ceiling, in seconds, for a
\* response put at the time at: D is at when the Date is absent, A is 0
\* when the Age is absent
timeToLive(response, at) ==
    LET D == IF response.date = -1 THEN at ELSE response.date
        A == IF response.age = -1 THEN 0 ELSE response.age
    IN Min(Max(response.maxAge - Max(at - D, A), 0), maxExpireIn)

\* the records that match(request) and matchAll(request) find now
returnedIds ==
    {readOut(TheRequest, DefaultOptions, Infinity)[i].id :
        i \in DOMAIN readOut(TheRequest, DefaultOptions, Infinity)}

ColonName == <<"v", ":", "1">>

IndexInit == PersistenceInit /\ backend = "memory"

\* the cache names and requests of put and delete: two URLs in 'v1', one
\* in 'v:1'
IndexRequests ==
    {<<cacheName, TheRequest>>,
     <<cacheName, [TheRequest EXCEPT !.path = "/bye"]>>,
     <<ColonName, TheRequest>>}

\* persistence.put(cacheName, request, response)
IndexPut(name, request, response) ==
    /\ nextId <= MaxCalls
    /\ \E r \in {persistencePut(backendState, name, request, response,
                                 nextId)} :
          /\ storage' = r.st.storage
          /\ indexes' = r.st.indexes
          /\ timers' = r.st.timers
          /\ nextId' = IF r.ret THEN nextId + 1 ELSE nextId
          /\ counter' = IF r.ret THEN countersAfterCreated ELSE counter
    /\ UNCHANGED <<indexExpires, dbPool, versionstamps, transactions, backend, keysLimit, normalizer, openedCaches,
                   cachesCreated, storageCall, now, batchOperations,
                   batchProcessing, current, calls, disposeState,
                   disposePending, failures>>

\* persistence.delete(cacheName, request)
IndexDelete(name, request) ==
    /\ \E r \in {persistenceDeleteRequest(backendState, name, request)} :
          /\ storage' = r.st.storage
          /\ indexes' = r.st.indexes
          /\ timers' = r.st.timers
    /\ UNCHANGED <<indexExpires, dbPool, versionstamps, transactions, backend, keysLimit, normalizer, openedCaches,
                   cachesCreated, storageCall, now, counter, nextId,
                   batchOperations, batchProcessing, current, calls,
                   disposeState, disposePending, failures>>

\* persistence.delete(cacheName, request, response), the response being one
\* that the cache returned, whose x-cachestorage-id header is id
IndexDeleteResponse(name, request, id) ==
    /\ \E r \in {persistenceDelete(backendState, name, request, id)} :
          /\ storage' = r.st.storage
          /\ indexes' = r.st.indexes
          /\ timers' = r.st.timers
    /\ UNCHANGED <<indexExpires, dbPool, versionstamps, transactions, backend, keysLimit, normalizer, openedCaches,
                   cachesCreated, storageCall, now, counter, nextId,
                   batchOperations, batchProcessing, current, calls,
                   disposeState, disposePending, failures>>

IndexNext ==
    \/ \E input \in IndexRequests, response \in PersistenceResponses :
          IndexPut(input[1], input[2], response)
    \/ \E input \in IndexRequests : IndexDelete(input[1], input[2])
    \/ \E input \in IndexRequests, id \in StoredIds :
          IndexDeleteResponse(input[1], input[2], id)
    \/ \E key \in DOMAIN timers : TimerFires(key)
    \/ Tick

IndexSpec == IndexInit /\ [][IndexNext]_vars

\* the keys that an index of _indexes holds
membersOf(ik) == {m.key : m \in indexes[ik]}

\* C29: in the memory backend every key of _storage is a member of the
\* index named by the first three parts of the key and of no other index,
\* every member of an index is a key of _storage, and no index is empty
C29_IndexesMirrorStorage ==
    /\ \A k \in DOMAIN storage, ik \in DOMAIN indexes :
          k \in membersOf(ik) <=> ik = indexKey(k)
    /\ \A k \in DOMAIN storage : indexKey(k) \in DOMAIN indexes
    /\ \A ik \in DOMAIN indexes :
          membersOf(ik) # {} /\ membersOf(ik) \subseteq DOMAIN storage


\* the ids of the records that persistence.get(cacheName, request) yields
\* now: those that a matchAll ignoring the query string and Vary returns
yieldedIds ==
    LET out == matchMax(backendState, cacheName, Infinity, TheRequest,
                        IgnoreSearchAndVary).out
    IN {out[i].id : i \in DOMAIN out}

\* the ids of the stored records of the request's index that have not
\* expired
liveIds ==
    {storage[k].id :
        k \in {x \in DOMAIN storage :
                 /\ indexKey(x) = requestKey(cacheName, TheRequest)
                 /\ ~hasExpired(storage[x])}}

\* C30: persistence get yields every record of the request's index that is
\* stored and has not expired, also when the index holds entries whose
\* blob has expired or is missing
C30_GetYieldsEveryLiveRecord == liveIds \subseteq yieldedIds


\* KvSpec: two CachePersistenceDenoKv objects on one database, each with
\* its own pool, put and delete records; _dbSet and _dbDel read the index,
\* await, and commit, and the other object may run in between
KvInit == PersistenceInit /\ backend = "denokv"

\* client.get(indexKey): the value and the versionstamp of the index
kvGet(ik) ==
    [present |-> ik \in DOMAIN indexes,
     versionstamp |-> IF ik \in DOMAIN indexes THEN versionstamps[ik] ELSE 0,
     index |-> IF ik \in DOMAIN indexes THEN indexes[ik] ELSE {}]

\* .check(indexRes): the index is as it was read, absent or with the same
\* versionstamp
kvCheck(read, ik) ==
    IF read.present
    THEN ik \in DOMAIN indexes /\ versionstamps[ik] = read.versionstamp
    ELSE ik \notin DOMAIN indexes

\* the versionstamp that a commit gives to the index it writes
kvCommitted(ik) ==
    Assign(versionstamps, ik,
           IF ik \in DOMAIN versionstamps THEN versionstamps[ik] + 1 ELSE 1)

\* put(cacheName, request, response) up to the await of the commit:
\* _pairToPlain, _persistenceKey, and in _dbSet acquire, which waits while
\* every client of the pool is borrowed, and client.get
KvPutRead(w, request, response) ==
    /\ transactions[w].pc = "idle"
    /\ dbPool[w] < poolMax
    /\ nextId <= MaxCalls
    /\ expiresIn(response) > 0
    /\ LET value == plainReqRes(request, response, nextId)
           key == persistenceKey(cacheName, request, value.id)
       IN transactions' =
             [transactions EXCEPT
                ![w] = [pc |-> "commit", op |-> "set", key |-> key,
                        value |-> value, ttl |-> expiresIn(response),
                        read |-> kvGet(indexKey(key))]]
    /\ dbPool' = [dbPool EXCEPT ![w] = @ + 1]
    /\ nextId' = nextId + 1
    /\ counter' = countersAfterCreated
    /\ UNCHANGED <<indexExpires, versionstamps, backend, keysLimit, normalizer,
                   openedCaches, cachesCreated, storageCall, now, storage,
                   indexes, timers, batchOperations, batchProcessing,
                   current, calls, disposeState, disposePending, failures>>

\* delete(cacheName, request, response) up to the await of the commit:
\* _persistenceKey, and in _dbDel acquire and client.get
KvDeleteRead(w, request, id) ==
    /\ transactions[w].pc = "idle"
    /\ dbPool[w] < poolMax
    /\ Len(calls) < MaxPersistenceCalls
    /\ calls' = Append(calls, [kind |-> "delete(request, response)",
                               phase |-> "running", result |-> "none"])
    /\ LET key == persistenceKey(cacheName, request, id)
       IN transactions' =
             [transactions EXCEPT
                ![w] = [pc |-> "commit", op |-> "del", key |-> key,
                        value |-> Null, ttl |-> 0,
                        read |-> kvGet(indexKey(key))]]
    /\ dbPool' = [dbPool EXCEPT ![w] = @ + 1]
    /\ UNCHANGED <<indexExpires, versionstamps, backend, keysLimit, normalizer,
                   openedCaches, cachesCreated, storageCall, now, storage,
                   indexes, timers, counter, nextId, batchOperations,
                   batchProcessing, current, disposeState, disposePending,
                   failures>>

\* what the commit of a transaction writes when its check passes
kvWrites(t) ==
    LET ik == indexKey(t.key)
        index == IF t.op = "set"
                 THEN t.read.index \cup {[key |-> t.key, score |-> 0]}
                 ELSE {m \in t.read.index : m.key # t.key}
    IN [storage |-> IF t.op = "set" THEN Assign(storage, t.key, t.value)
                    ELSE Remove(storage, t.key),
        indexes |-> IF index = {} THEN Remove(indexes, ik)
                    ELSE Assign(indexes, ik, index),
        versionstamps |-> IF index = {} THEN versionstamps
                          ELSE kvCommitted(ik)]

\* the rest of _dbSet and of _dbDel: await ...commit(), whose result is not
\* looked at, release, and put or delete returns true
KvCommit(w) ==
    /\ transactions[w].pc = "commit"
    /\ LET t == transactions[w]
       IN IF kvCheck(t.read, indexKey(t.key))
          THEN /\ storage' = kvWrites(t).storage
               /\ indexes' = kvWrites(t).indexes
               /\ versionstamps' = kvWrites(t).versionstamps
          ELSE UNCHANGED <<storage, indexes, versionstamps>>
    /\ transactions' = [transactions EXCEPT ![w] = NoTransaction]
    /\ dbPool' = [dbPool EXCEPT ![w] = @ - 1]
    /\ UNCHANGED <<indexExpires, backend, keysLimit, normalizer, openedCaches,
                   cachesCreated, storageCall, now, timers, counter, nextId,
                   batchOperations, batchProcessing, current, calls,
                   disposeState, disposePending, failures>>

KvNext ==
    \/ \E w \in Writers, request \in PersistenceQueries :
          KvPutRead(w, request, TheResponse)
    \/ \E w \in Writers, request \in PersistenceQueries, id \in StoredIds :
          KvDeleteRead(w, request, id)
    \/ \E w \in Writers : KvCommit(w)

KvSpec == KvInit /\ [][KvNext]_vars

\* C31: the commit of a put that returns true has written the record to
\* storage and to its index (a commit that lost the version check does not
\* end in a put that returns true), and no commit removes from an index the
\* entry of another record
C31_LostCheckIsNotSuccess ==
    [][\A w \in Writers :
          KvCommit(w)
             => LET t == transactions[w]
                    ik == indexKey(t.key)
                IN /\ t.op = "set"
                      => /\ t.key \in DOMAIN storage'
                         /\ ik \in DOMAIN indexes'
                         /\ t.key \in {m.key : m \in indexes'[ik]}
                   /\ \A m \in (IF ik \in DOMAIN indexes THEN indexes[ik]
                                ELSE {}) :
                         m.key # t.key
                            => /\ ik \in DOMAIN indexes'
                               /\ m \in indexes'[ik]]_vars


\* the commit of _dbSet or _dbDel rejects (the database is not reachable,
\* the value is refused): the error leaves _dbSet or _dbDel at the await,
\* before release, and put or delete rejects with it
KvCommitFails(w) ==
    /\ transactions[w].pc = "commit"
    /\ failures < MaxFailures
    /\ failures' = failures + 1
    /\ transactions' = [transactions EXCEPT ![w] = NoTransaction]
    /\ UNCHANGED <<indexExpires, dbPool, versionstamps, backend, keysLimit, normalizer,
                   openedCaches, cachesCreated, storageCall, now, storage,
                   indexes, timers, counter, nextId, batchOperations,
                   batchProcessing, current, calls, disposeState,
                   disposePending>>

\* PoolSpec: KvSpec with storage commands that may fail
PoolNext == KvNext \/ \E w \in Writers : KvCommitFails(w)

PoolSpec == KvInit /\ [][PoolNext]_vars

\* C32: a persistence object that is not inside an operation, whether its
\* operations ended normally or with an error, has no client borrowed from
\* its pool
C32_ClientReleasedOnEveryPath ==
    \A w \in Writers : transactions[w].pc = "idle" => dbPool[w] = 0


\* ------------------------------------- the expiration of the index keys
\* ExpirySpec: puts and deletes of records on the Redis and Deno KV
\* backends, with the expiration that _dbSet and _dbDel give the index key,
\* over a time that reaches the 30 days of the ceiling.

\* a key that Redis holds without a time to live
noExpiration == -1

\* the times of the run: its first seconds and the seconds around the ceiling
ExpiryTimes == (1..MaxTime) \cup {defaultExpireIn + t : t \in 0..MaxTime}

\* the responses that are put: max-age of 2 seconds, max-age of one second
\* more than 30 days, and no max-age
ExpiryPuts ==
    {[TheResponse EXCEPT !.maxAge = a] : a \in {-1, 2, BeyondCeiling}}

\* the time to live that put hands to _dbSet.  CachePersistenceRedis caps
\* the index expiration with _maxExpireIn, which the base class of
\* src/unnamed/part_002 has; CachePersistenceDenoKv gives the index
\* _defaultExpireIn, which the base class of cache-persistence-base.ts has
timeToLiveGiven(response) ==
    IF backend = "denokv" THEN baseExpiresIn(response)
    ELSE expiresIn(response)

\* PEXPIRE indexKey ttl GT after ZADD: the expiration is set only when it is
\* later than the one the key has, and a key without one (the sorted set
\* that ZADD has just created) counts as never expiring
pexpireGT(expiry, ik, ttl) ==
    IF ik \in DOMAIN expiry /\ expiry[ik] # noExpiration
    THEN Assign(expiry, ik, Max(expiry[ik], now + ttl))
    ELSE Assign(expiry, ik, noExpiration)

\* the expiration of the index keys after _dbSet(key, value, ttl)
indexExpiresAfterSet(key, ttl) ==
    IF backend = "denokv"
    THEN Assign(indexExpires, indexKey(key), now + defaultExpireIn)
    ELSE pexpireGT(indexExpires, indexKey(key), Min(ttl, maxExpireIn))

\* the expiration of the index keys after _dbDel(key): Deno KV writes the
\* index again with _defaultExpireIn or deletes it; ZREM of the last member
\* removes the sorted set
indexExpiresAfterDel(key, after) ==
    LET ik == indexKey(key)
    IN IF ik \notin DOMAIN after THEN Remove(indexExpires, ik)
       ELSE IF backend = "denokv" /\ key \in DOMAIN storage
       THEN Assign(indexExpires, ik, now + defaultExpireIn)
       ELSE indexExpires

ExpiryInit == PersistenceInit /\ backend \in {"redis", "denokv"}

\* persistence.put(cacheName, request, response), in the first seconds of
\* the run
ExpiryPut(request, response) ==
    /\ nextId <= MaxCalls
    /\ now <= MaxTime
    /\ timeToLiveGiven(response) > 0
    /\ LET ttl == timeToLiveGiven(response)
           value == [plainReqRes(request, response, nextId)
                        EXCEPT !.expires = created[1] + ttl]
           key == persistenceKey(cacheName, request, value.id)
           after == dbSet(backendState, key, value, ttl)
       IN /\ storage' = after.storage
          /\ indexes' = after.indexes
          /\ indexExpires' = indexExpiresAfterSet(key, ttl)
    /\ nextId' = nextId + 1
    /\ counter' = countersAfterCreated
    /\ UNCHANGED <<dbPool, versionstamps, transactions, backend, keysLimit,
                   normalizer, openedCaches, cachesCreated, storageCall, now,
                   timers, batchOperations, batchProcessing, current, calls,
                   disposeState, disposePending, failures>>

\* persistence.delete(cacheName, request, response) of a stored record
ExpiryDelete(request, id) ==
    /\ persistenceKey(cacheName, request, id) \in DOMAIN storage
    /\ LET key == persistenceKey(cacheName, request, id)
           after == persistenceDelete(backendState, cacheName, request, id).st
       IN /\ storage' = after.storage
          /\ indexes' = after.indexes
          /\ indexExpires' = indexExpiresAfterDel(key, after.indexes)
    /\ UNCHANGED <<dbPool, versionstamps, transactions, backend, keysLimit,
                   normalizer, openedCaches, cachesCreated, storageCall, now,
                   timers, counter, nextId, batchOperations, batchProcessing,
                   current, calls, disposeState, disposePending, failures>>

\* what an expiration that has elapsed at time t leaves of the index keys
unexpiredAt(t) ==
    {ik \in DOMAIN indexes :
        ik \in DOMAIN indexExpires =>
           indexExpires[ik] = noExpiration \/ indexExpires[ik] > t}

\* time passes.  Redis removes a blob and an index key at the instant of
\* their expiration; Deno KV removes them at some later time
Elapse(t) ==
    /\ t > now
    /\ now' = t
    /\ IF backend = "redis"
       THEN /\ storage' = [k \in {x \in DOMAIN storage :
                                    storage[x].expires > t} |-> storage[k]]
            /\ indexes' = [ik \in unexpiredAt(t) |-> indexes[ik]]
            /\ indexExpires' = [ik \in DOMAIN indexExpires \cap unexpiredAt(t)
                                  |-> indexExpires[ik]]
       ELSE UNCHANGED <<storage, indexes, indexExpires>>
    /\ UNCHANGED <<dbPool, versionstamps, transactions, backend, keysLimit,
                   normalizer, openedCaches, cachesCreated, storageCall,
                   timers, counter, nextId, batchOperations, batchProcessing,
                   current, calls, disposeState, disposePending, failures>>

\* Deno KV drops an index key whose expireIn has elapsed
IndexExpires(ik) ==
    /\ backend = "denokv"
    /\ ik \in DOMAIN indexes
    /\ ik \in DOMAIN indexExpires
    /\ indexExpires[ik] <= now
    /\ indexes' = Remove(indexes, ik)
    /\ indexExpires' = Remove(indexExpires, ik)
    /\ UNCHANGED <<dbPool, versionstamps, transactions, backend, keysLimit,
                   normalizer, openedCaches, cachesCreated, storageCall, now,
                   storage, timers, counter, nextId, batchOperations,
                   batchProcessing, current, calls, disposeState,
                   disposePending, failures>>

ExpiryNext ==
    \/ \E request \in PersistenceQueries, response \in ExpiryPuts :
          ExpiryPut(request, response)
    \/ \E request \in PersistenceQueries, id \in StoredIds :
          ExpiryDelete(request, id)
    \/ \E t \in ExpiryTimes : Elapse(t)
    \/ \E key \in DOMAIN storage : BlobExpires(key)
    \/ \E ik \in DOMAIN indexes : IndexExpires(ik)

ExpirySpec == ExpiryInit /\ [][ExpiryNext]_vars

\* C33: on the Redis and Deno KV backends a record blob that is stored and
\* whose own expiration has not elapsed has its index key stored too
C33_IndexOutlivesMembers ==
    \A k \in DOMAIN storage :
       storage[k].expires > now => indexKey(k) \in DOMAIN indexes


\* ------------------------------------------------- the created values
\* CreatedSpec: puts of records that stay for 30 days on one persistence
\* object, in the same instant and in later ones, over a time that is long
\* enough for _created to forget the counters of the first instants.

\* the times of the run: its first instants and the ones a minute later
CreatedTimes == (1..MaxTime) \cup {pastWindow + t : t \in 1..MaxTime}

CreatedNext ==
    \/ \E request \in PersistenceQueries : PersistPut(request, TheResponse)
    \/ \E t \in CreatedTimes : Elapse(t)

CreatedSpec == PersistenceInit /\ [][CreatedNext]_vars

\* created a comes before created b: an earlier instant, or the same
\* instant and a smaller count
createdBefore(a, b) == a[1] < b[1] \/ (a[1] = b[1] /\ a[2] < b[2])

\* C34: of two records made by one persistence object, the one made first
\* (the smaller id of this model) has the smaller created value,
\* [instant, count] compared part by part; so no two records have the same
C34_CreatedStrictlyIncreasing ==
    \A j, k \in DOMAIN storage :
       storage[j].id < storage[k].id =>
          createdBefore(storage[j].created, storage[k].created)

\* two records made in the same instant and one made after the counter of
\* that instant was forgotten
C34_Witness ==
    \E j, k, l \in DOMAIN storage :
       /\ storage[j].id < storage[k].id
       /\ storage[j].created[1] = storage[k].created[1]
       /\ storage[k].id < storage[l].id
       /\ storage[l].created[1] > storage[k].created[1] + pastWindow
       /\ storage[k].created[1] \notin DOMAIN counter


\* ------------------------------------------------ the scores of Redis
\* ScoreSpec: one CachePersistenceRedis and one request, with enough puts in
\* one instant for the counter of _created to reach two digits.
ScoreInit == PersistenceInit /\ backend = "redis"

\* persistence.put(cacheName, request, response) of a record that stays
ScorePut ==
    /\ nextId <= MaxScorePuts
    /\ \E r \in {persistencePut(backendState, cacheName, TheRequest,
                                 TheResponse, nextId)} :
          /\ storage' = r.st.storage
          /\ indexes' = r.st.indexes
          /\ timers' = r.st.timers
    /\ nextId' = nextId + 1
    /\ counter' = countersAfterCreated
    /\ UNCHANGED <<indexExpires, dbPool, versionstamps, transactions,
                   backend, keysLimit, normalizer, openedCaches,
                   cachesCreated, storageCall, now, batchOperations,
                   batchProcessing, current, calls, disposeState,
                   disposePending, failures>>

ScoreNext == ScorePut \/ Tick

ScoreSpec == ScoreInit /\ [][ScoreNext]_vars

\* C35: of two members of one Redis index, the one whose record has the
\* smaller created value, [instant, count], has the strictly smaller score
C35_ScoreFollowsCreation ==
    \A ik \in DOMAIN indexes : \A m, n \in indexes[ik] :
       (/\ m.key \in DOMAIN storage
        /\ n.key \in DOMAIN storage
        /\ createdBefore(storage[m.key].created, storage[n.key].created))
          => m.score < n.score


\* C36: a stored record whose Vary header is written with a space after the
\* comma matches a query, under any options, exactly when the same record
\* with the header written without the space does
C36_VaryFieldsAreTrimmed ==
    \A request \in VaryRequests, options \in VaryOptions :
        \A k \in DOMAIN storage :
            storage[k].resVary = "accept-encoding, user-agent"
               => requestMatchesCachedItem(request, storage[k], options)
                    = requestMatchesCachedItem(
                         request,
                         [storage[k] EXCEPT
                             !.resVary = "accept-encoding,user-agent"],
                         options)


\* a put or a delete of this Cache is in the queue or is being executed
operationsPending == batchOperations # <<>> \/ current # NoOperation

\* C37: while a put or a delete is in the queue or is being executed,
\* matchAll can run (as long as the persistence has not been disposed), and
\* what it returns are records that are stored by then: the response of a
\* put that has not been applied is not among them
C37_ReadsBypassQueue ==
    (operationsPending /\ (backend = "memory" \/ disposeState # "done"))
       => /\ ENABLED Read(TheRequest, DefaultOptions, Infinity)
          /\ LET out == readOut(TheRequest, DefaultOptions, Infinity)
             IN \A i \in DOMAIN out : \E k \in DOMAIN storage :
                   out[i] = storage[k]

\* a put that Cache.put has accepted is waiting while nothing is stored,
\* and matchAll runs and returns nothing
C37_Witness ==
    /\ current # NoOperation
    /\ current.op.kind = "put"
    /\ current.pc = "start"
    /\ storage = Empty
    /\ ENABLED Read(TheRequest, DefaultOptions, Infinity)
    /\ readOut(TheRequest, DefaultOptions, Infinity) = <<>>


\* whether every record of a result is stored under the cache name
storedUnder(name, out) ==
    \A i \in DOMAIN out :
       \E k \in DOMAIN storage : k[2] = name /\ storage[k] = out[i]

\* C38: what matchAll and keys return for a cache name, without a request
\* or for a request, are records that were put under that name, also when
\* the name is a prefix of the name of another cache
C38_QueriesStayWithinCacheName ==
    \A name \in CacheNames :
       /\ storedUnder(name, matchMax(backendState, name, Infinity, Null,
                                     DefaultOptions).out)
       /\ \A input \in RegistryQueries :
             storedUnder(name, matchMax(backendState, name, Infinity,
                                        input[1], input[2]).out)


\* C39: no step of the execution of a put whose response has a TTL of 0 or
\* less (the replace step, the persistence put) changes the stored records,
\* and match for the request of the put returns after the step what it
\* returned before it
C39_ExpiredPutLeavesContent ==
    [][((ExecPutMatch \/ ExecPutStore)
           /\ expiresIn(current.op.response) <= 0)
          => /\ storage' = storage
             /\ readOutAfter(current.op.request, DefaultOptions, 1)
                  = readOut(current.op.request, DefaultOptions, 1)]_vars


\* ------------------------------------------------- the removal timers
\* TimerSpec: puts on the memory backend of records with a time to live of
\* one second and of 30 days, over a time that reaches the longest delay
\* that _scheduleRemoval gives setTimeout and the 30 days of the ceiling.

\* the times of the run: its first seconds, the seconds from the longest
\* delay on, and the seconds from the ceiling on
TimerTimes ==
    (1..MaxTime) \cup {maxInteger + t : t \in 0..MaxTime}
                 \cup {maxExpireIn + t : t \in 0..MaxTime}

TimerInit == PersistenceInit /\ backend = "memory"

TimerNext ==
    \/ \E request \in PersistenceQueries, response \in PersistenceResponses :
          PersistPut(request, response)
    \/ \E t \in TimerTimes : Elapse(t)
    \/ \E key \in DOMAIN timers : TimerFires(key)

TimerSpec == TimerInit /\ [][TimerNext]_vars

\* C40: when the removal timer of a stored record of the memory backend
\* fires, the expires time of the record has been reached
C40_TimerNotBeforeExpires ==
    [][\A key \in DOMAIN timers :
          (TimerFires(key) /\ key \in DOMAIN storage)
             => storage[key].expires <= now]_vars

====
